---- MODULE Spec2Model ----
(***************************************************************************)
(* Model of egui-multiwin (macro generation, multi_window.rs): the window  *)
(* containers, the graphics-context custody of handle_event_outer, the     *)
(* per-window event routing and redraw protocol, the do_window_events pass *)
(* and the control-flow merge of run.                                      *)
(*                                                                         *)
(* One action is one call of the program: MultiWindow::add before the loop *)
(* runs, or the run closure on one event (do_window_events or              *)
(* process_event, the merge, the exit decision).  The outcome of every     *)
(* user callback and backend call is an input drawn with \E.               *)
(***************************************************************************)
EXTENDS Integers, Sequences, FiniteSets, TLC

\* ---------------------------------------------------------------- bounds
\* native windows ever created (native ids are 1..MaxWindows)
MaxWindows == 2
\* window requests returned by one redraw / custom_event / process_event
MaxSpawn == 1
\* non-root viewport ids a frame output can name (ids 1..MaxVp)
MaxVp == 2
\* readings of Instant::now() (0..MaxNow, microseconds)
MaxNow == 1
\* SpecMerge: length of the schedule list handed to the merge
MaxLen == 3
\* SpecMerge: WaitUntil instants 1..MaxT
MaxT == 2
\* SpecViewports: redraws in a row
MaxRedraws == 3
\* SpecIds: width of the request-id counter in bits (u32 in the program)
IdBits == 2
\* SpecIds: threads that call new_id
MaxThreads == 2
\* SpecIds: calls of new_id that are started
MaxCalls == 5

\* SpecFonts: font names 1..MaxFonts
MaxFonts == 1
\* SpecFonts: font data 1..MaxData that a name can be registered with
MaxData == 2

\* SpecOrder: containers in the collection when the pass starts
MaxBefore == 3
\* configs that find_configs yields for one create
MaxConfigs == 2
\* largest num_samples of a config
MaxSamples == 1

\* ------------------------------------------------------ program constants
\* egui::viewport::ViewportId::ROOT
ROOT == 0
\* `repaint_after.as_millis() < 10000`
RepaintLimitMillis == 10000
\* Duration::as_millis: whole milliseconds of a duration kept in microseconds
MicrosPerMilli == 1000

VpIds == 1..MaxVp
Instants == 0..MaxNow
\* repaint delays (microseconds) that a frame output reports
Delays == {0, 500, 1000, 9999999, 10000000}

\* ------------------------------------------------------------- schedules
\* Option<ControlFlow>: None is the terminate schedule
Poll == [k |-> "Poll", t |-> 0]
Wait == [k |-> "Wait", t |-> 0]
Terminate == [k |-> "None", t |-> 0]
WaitUntil(when) == [k |-> "WaitUntil", t |-> when]

\* ------------------------------------------------------------- requests
\* The TrackedWindow implementations of an application: is_root() and
\* whether can_quit is overridden ("custom") or the default (always true).
\* As in the examples: a root window, a plain window, and a popup window
\* that overrides can_quit.
WindowTypes ==
    {[root |-> TRUE, cq |-> "default"],
     [root |-> FALSE, cq |-> "default"],
     [root |-> FALSE, cq |-> "custom"]}

\* NewWindowRequest::new: window state present, fresh (empty) viewport set
NewWindowRequest(ty) ==
    [state |-> TRUE, root |-> ty.root, cq |-> ty.cq,
     vpid |-> ROOT, fam |-> 0, cb |-> FALSE, vb |-> FALSE]

\* NewWindowRequest::new_viewport: no window state, shared viewport set
NewViewportRequest(vp_id, viewportset, vpcb) ==
    [state |-> FALSE, root |-> FALSE, cq |-> "default",
     vpid |-> vp_id, fam |-> viewportset, cb |-> vpcb, vb |-> TRUE]

\* the request lists a user callback can return
UserRequests ==
    UNION {[1..n -> {NewWindowRequest(ty) : ty \in WindowTypes}] : n \in 0..MaxSpawn}

\* ------------------------------------------------------------ containers
\* Mutant: the container is built around the empty placeholder
CreateWithoutContext(req, native) ==
    [id |-> native,
     kind |-> IF req.state THEN "PlainWindow" ELSE "Viewport",
     root |-> req.root, cq |-> req.cq,
     gl |-> "None", egui |-> "None", fonts |-> <<>>, destroyed |-> FALSE,
     vpid |-> req.vpid,
     fam |-> IF req.state THEN native ELSE req.fam,
     cb |-> req.cb, vb |-> req.vb]

\* TrackedWindowContainer::create: NotCurrent holder, no egui yet
Create(req, native) ==
    [id |-> native,
     kind |-> IF req.state THEN "PlainWindow" ELSE "Viewport",
     root |-> req.root, cq |-> req.cq,
     gl |-> "NotCurrent", egui |-> "None", fonts |-> <<>>, destroyed |-> FALSE,
     vpid |-> req.vpid,
     fam |-> IF req.state THEN native ELSE req.fam,
     cb |-> req.cb, vb |-> req.vb]

\* TrackedWindow::is_root of the window data
is_root(w) == w.root

\* TrackedWindow::can_quit: the default returns true, an override returns
\* whatever the application decides at that call (answer).
can_quit(w, answer) == IF w.cq = "custom" THEN answer ELSE TRUE

\* MultiWindow::add: create the container and push it
add(st, req) ==
    [st EXCEPT !.windows = Append(@, Create(req, st.nextId)),
               !.nextId = @ + 1,
               !.added = Append(@, st.nextId)]

\* The loops `for ... { let _e = self.add(...) }`: create panics when the
\* backend gives no window (createOk false), there is no Err to drop
RECURSIVE add_all(_, _, _)
add_all(st, reqs, createOk) ==
    IF reqs = <<>> THEN st
    ELSE IF ~createOk THEN [st EXCEPT !.crashed = "create"]
    ELSE add_all(add(st, Head(reqs)), Tail(reqs), createOk)

\* ---------------------------------------------------------------- events
WindowEventKinds == {"Resized", "CloseRequested", "RedrawRequested", "Other"}
WindowEvent(id, we) == [type |-> "WindowEvent", wid |-> id, we |-> we]
\* EventTrait::window_id: 0 is None (addressed to no window)
UserEvent(id) == [type |-> "UserEvent", wid |-> id, we |-> "-"]
LoopExiting == [type |-> "LoopExiting", wid |-> 0, we |-> "-"]
AboutToWait == [type |-> "AboutToWait", wid |-> 0, we |-> "-"]

\* Mutant: the window id is compared only once the context is current
is_event_for_window_when_current(w, event) ==
    IF event.type = "UserEvent" /\ w.gl \in {"PossiblyCurrent", "NotCurrent"}
    THEN IF event.wid # 0 THEN event.wid = w.id ELSE FALSE
    ELSE IF event.type = "WindowEvent" /\ w.gl = "PossiblyCurrent"
    THEN w.id = event.wid
    ELSE TRUE

\* Mutant: a user-event addressed to no window is for every window
is_event_for_window_broadcast(w, event) ==
    IF event.type = "UserEvent" /\ w.gl \in {"PossiblyCurrent", "NotCurrent"}
    THEN IF event.wid # 0 THEN event.wid = w.id ELSE TRUE
    ELSE IF event.type = "WindowEvent" /\ w.gl \in {"PossiblyCurrent", "NotCurrent"}
    THEN w.id = event.wid
    ELSE TRUE

\* Mutant: a close request is for every window
is_event_for_window_any_close(w, event) ==
    IF event.type = "UserEvent" /\ w.gl \in {"PossiblyCurrent", "NotCurrent"}
    THEN IF event.wid # 0 THEN event.wid = w.id ELSE FALSE
    ELSE IF event.type = "WindowEvent" /\ w.gl \in {"PossiblyCurrent", "NotCurrent"}
    THEN w.id = event.wid \/ event.we = "CloseRequested"
    ELSE TRUE

\* TrackedWindowContainer::is_event_for_window
is_event_for_window(w, event) ==
    IF event.type = "UserEvent" /\ w.gl \in {"PossiblyCurrent", "NotCurrent"}
    THEN IF event.wid # 0 THEN event.wid = w.id ELSE FALSE
    ELSE IF event.type = "WindowEvent" /\ w.gl \in {"PossiblyCurrent", "NotCurrent"}
    THEN w.id = event.wid
    ELSE TRUE

\* ------------------------------------------------------------- utilities
Min(S) == CHOOSE x \in S : \A y \in S : x <= y

RECURSIVE SetToSeq(_)
SetToSeq(S) == IF S = {} THEN <<>> ELSE <<Min(S)>> \o SetToSeq(S \ {Min(S)})

\* F of the value of v, with v evaluated once
Bind(v, F(_)) == CHOOSE y \in {F(x) : x \in {v}} : TRUE

Reverse(s) == [i \in 1..Len(s) |-> s[Len(s) + 1 - i]]

Ids(ws) == {ws[i].id : i \in 1..Len(ws)}

\* Duration::as_millis
as_millis(d) == d \div MicrosPerMilli

\* ------------------------------------------------- the redraw closure
\* RedrawResponse::default
DefaultResponse == [quit |-> FALSE, new_windows |-> <<>>]

\* Schedule derivation from the repaint delay of the window's own viewport
ScheduleFor(quit, repaint_after, now) ==
    IF quit THEN Terminate
    ELSE IF repaint_after = 0 THEN Poll
    ELSE IF as_millis(repaint_after) > 0 /\ as_millis(repaint_after) < RepaintLimitMillis
    THEN WaitUntil(now + repaint_after)
    ELSE Wait

\* Mutant: the ids missing from the frame output are never removed
RetainedViewportsAll(w, vs, full_output) == vs

\* The registry after the removal loop: a window without a deferred callback
\* removes the ids that its frame output does not name
RetainedViewports(w, vs, full_output) ==
    IF ~w.cb THEN vs \cap full_output ELSE vs

\* Mutant: a request is made for every non-root id of the frame output
NewViewportsUnchecked(vs, full_output) == {id \in full_output : id # ROOT}

\* The ids the loop over viewport_output makes a request for: not ROOT and
\* not in the registry
NewViewports(vs, full_output) ==
    {id \in full_output : id # ROOT /\ id \notin vs}

\* Mutant: the registry learns a new id only when its window exists
InsertViewportsLater(vs, fresh) == vs

\* viewportset.insert for every id a request is made for
InsertViewports(vs, fresh) == vs \cup fresh

\* Mutant: a viewport window never takes a missing id as a quit
ImplicitQuitNever(w, vs) == FALSE

\* A window with a deferred callback whose own id is not in the registry
\* sets rr.quit
ImplicitQuit(w, vs) == w.cb /\ w.vpid \notin vs

\* Mutant: the delay that the frame reports is used whether or not the
\* output has a record for the window's viewport
RepaintAfterReported(w, full_output, d) == d

\* full_output.viewport_output.get(self.viewportid) mapped to its
\* repaint_delay, or zero when there is no record
RepaintAfter(w, full_output, d) ==
    IF w.vpid \in full_output THEN d ELSE 0

\* The `redraw` closure of handle_event.  vs is the locked viewport set of
\* the window's family; in.out are the non-root ids of the frame output
\* (the output always has the ROOT record), in.cbs those that carry a
\* deferred callback.
redraw(w, vs, in) ==
    LET rr0 == IF w.cb THEN DefaultResponse
               ELSE IF w.kind = "PlainWindow"
                    THEN [quit |-> in.quit, new_windows |-> in.new]
                    ELSE DefaultResponse
        full_output == {ROOT} \cup in.out
        vs1 == RetainedViewports(w, vs, full_output)
        quit == rr0.quit \/ ImplicitQuit(w, vs)
        fresh == NewViewports(vs1, full_output)
        order == SetToSeq(fresh)
        vps == [i \in 1..Len(order) |->
                   NewViewportRequest(order[i], w.fam, order[i] \in in.cbs)]
        repaint_after == RepaintAfter(w, full_output, in.d)
        cf == ScheduleFor(quit, repaint_after, in.now)
    IN  [quit |-> quit,
         new_windows |-> rr0.new_windows \o vps,
         vs |-> InsertViewports(vs1, fresh),
         cf |-> cf,
         delay |-> repaint_after,
         request_redraw |-> (cf = Poll),
         panic |-> IF in.swapOk THEN "none" ELSE "swap_buffers"]

\* --------------------------------------------------------- handle_event
\* Mutant: the root-window-gone check is missing
ForcedTerminateNever(w, root_window_exists) == FALSE

\* "root-window-gone": a window with window data that is not a root is told
\* to terminate when no root window existed at the start of the pass
ForcedTerminate(w, root_window_exists) ==
    w.kind = "PlainWindow" /\ ~root_window_exists /\ ~is_root(w)

\* Mutant: a resize, a close request and a redraw request are not forwarded
\* to on_window_event
WindowEventStepsOtherForwarded(we) ==
    IF we = "Resized" THEN <<"resize">>
    ELSE IF we = "CloseRequested" THEN <<"control_flow = None">>
    ELSE IF we = "RedrawRequested" THEN <<"redraw">>
    ELSE <<"on_window_event">>

\* What the WindowEvent arm does, in order: the match on the event, then
\* egui.on_window_event for whatever the event is
WindowEventSteps(we) ==
    (IF we = "Resized" THEN <<"resize">>
     ELSE IF we = "CloseRequested" THEN <<"control_flow = None">>
     ELSE IF we = "RedrawRequested" THEN <<"redraw">>
     ELSE <<>>)
    \o <<"on_window_event">>

\* Mutant: a custom_event response that signals quit ends the window
ControlFlowAfterMatchQuitting(event, redraw_cf, quit) ==
    IF event.type = "WindowEvent" /\ event.we = "CloseRequested" THEN Terminate
    ELSE IF event.type = "WindowEvent" /\ event.we = "RedrawRequested" THEN redraw_cf
    ELSE IF event.type = "UserEvent" /\ quit THEN Terminate
    ELSE Wait

\* control_flow after the match on the event: it starts as Wait, a close
\* request sets None, the redraw closure sets what it derived; the response
\* of custom_event is not looked at
ControlFlowAfterMatch(event, redraw_cf, quit) ==
    IF event.type = "WindowEvent" /\ event.we = "CloseRequested" THEN Terminate
    ELSE IF event.type = "WindowEvent" /\ event.we = "RedrawRequested" THEN redraw_cf
    ELSE Wait

\* TrackedWindowContainerInstance::handle_event
handle_event(w, event, root_window_exists, vs, in) ==
    Bind(redraw(w, vs, in), LAMBDA rd :
    LET isRedraw == event.type = "WindowEvent" /\ event.we = "RedrawRequested"
        response ==
            IF event.type = "UserEvent"
            THEN IF w.kind = "PlainWindow"
                 THEN [some |-> TRUE, new_windows |-> in.new, quit |-> in.quit]
                 ELSE [some |-> FALSE, new_windows |-> <<>>, quit |-> FALSE]
            ELSE IF isRedraw
                 THEN [some |-> TRUE, new_windows |-> rd.new_windows, quit |-> rd.quit]
                 ELSE [some |-> FALSE, new_windows |-> <<>>, quit |-> FALSE]
        cf0 == ControlFlowAfterMatch(event, rd.cf, response.quit)
        forced == ForcedTerminate(w, root_window_exists)
        control_flow == IF forced THEN Terminate ELSE cf0
    IN  [requested_control_flow |-> control_flow,
         windows_to_create |-> response.new_windows,
         vs |-> IF isRedraw THEN rd.vs ELSE vs,
         destroy |-> event.type = "LoopExiting",
         resized |-> event.type = "WindowEvent" /\ event.we = "Resized",
         on_window_event |-> event.type = "WindowEvent",
         steps |-> IF event.type = "WindowEvent"
                   THEN WindowEventSteps(event.we) ELSE <<>>,
         request_redraw |-> (isRedraw /\ rd.request_redraw),
         redrew |-> isRedraw,
         quit |-> response.quit,
         delay |-> IF isRedraw THEN rd.delay ELSE 0,
         forced |-> forced,
         root_window_exists |-> root_window_exists,
         panic |-> IF isRedraw THEN rd.panic ELSE "none"])

\* ---------------------------------------------------- handle_event_outer
\* What mem::replace leaves in the container's slot when the holder is taken
TakeContext(w) == [w EXCEPT !.gl = "None"]

\* Mutant: the terminate branch returns without putting the holder back
RestoreContextUnlessTerminate(w, cf) ==
    IF cf = Terminate THEN w ELSE [w EXCEPT !.gl = "PossiblyCurrent"]

\* The final mem::replace: the PossiblyCurrent holder goes back
RestoreContext(w, cf) == [w EXCEPT !.gl = "PossiblyCurrent"]

\* Mutant: the fonts are applied on every dispatch
InitEguiOnEveryDispatch(w, fontmap) ==
    [w EXCEPT !.egui = "Some", !.fonts = fontmap]

\* "create a context if it is missing": EguiGlow::new and set_fonts with
\* the font table of the orchestrator
InitEgui(w, fontmap) ==
    IF w.egui = "None" THEN [w EXCEPT !.egui = "Some", !.fonts = fontmap] ELSE w

\* The context that is current on the thread after the activation of the
\* holder taken from w: a NotCurrent holder is made current (or the call
\* panics); for a PossiblyCurrent holder the result of make_current is
\* dropped (`let _e`), a failed call leaves the current context as it was
Activate(w, taken, thread_context, in) ==
    IF taken = "PossiblyCurrent"
    THEN IF in.reassertOk THEN w.id ELSE thread_context
    ELSE w.id

\* Mutant: the teardown drops the egui context
try_quit_dropping_egui(w, answer) ==
    IF w.kind = "PlainWindow" /\ can_quit(w, answer)
    THEN [w EXCEPT !.destroyed = TRUE, !.egui = "None"] ELSE w

\* TrackedWindowContainer::try_quit: egui.destroy() when the window data
\* allows the quit; the Option stays Some
try_quit(w, answer) ==
    IF w.kind = "PlainWindow" /\ can_quit(w, answer)
    THEN [w EXCEPT !.destroyed = TRUE] ELSE w

\* TrackedWindowContainer::handle_event_outer; in.cq1 answers the can_quit
\* call of try_quit.  The result has the container as the call leaves it:
\* a panic between the two mem::replace unwinds past the second one.
handle_event_outer(w, event, root_window_exists, fontmap, thread_context, vs, in) ==
    LET taken == w.gl
        w1 == TakeContext(w)
        w2 == InitEgui(w1, fontmap)
    IN  Bind(handle_event(w2, event, root_window_exists, vs, in), LAMBDA r :
    LET handled == [w2 EXCEPT !.destroyed = @ \/ r.destroy]
        w3 == IF r.requested_control_flow = Terminate
              THEN try_quit(handled, in.cq1[w.id]) ELSE handled
        w4 == RestoreContext(w3, r.requested_control_flow)
        panic == IF taken = "None" THEN "no_context"
                 ELSE IF taken = "NotCurrent" /\ ~in.activateOk THEN "make_current"
                 ELSE IF w2.egui # "Some" THEN "not_initialized"
                 ELSE IF r.panic # "none" THEN r.panic
                 ELSE IF w3.gl # "None" THEN "had_context"
                 ELSE "none"
        left == IF panic = "no_context" \/ panic = "make_current" THEN w1
                ELSE IF panic = "not_initialized" THEN w2
                ELSE IF panic = "swap_buffers" THEN w2
                ELSE w4
    IN  [w |-> left, r |-> r, taken |-> taken, during |-> w3.gl,
         current_context |-> Activate(w, taken, thread_context, in),
         created_egui |-> (w1.egui = "None"), panic |-> panic])

\* ------------------------------------------------------------ the merge
\* Mutant: the `continue` that lets Poll take precedence is missing
merge_step_without_poll_check(flow, flow_request) ==
    IF flow_request = Terminate THEN flow
    ELSE IF flow_request = Poll THEN Poll
    ELSE IF flow_request = Wait THEN flow
    ELSE IF flow.k = "WaitUntil"
         THEN IF flow_request.t < flow.t THEN flow_request ELSE flow
         ELSE flow_request

\* One iteration of the merge loop of run over a requested schedule
merge_step(flow, flow_request) ==
    IF flow_request = Terminate THEN flow
    ELSE IF flow_request = Poll THEN Poll
    ELSE IF flow_request = Wait THEN flow
    ELSE IF flow = Poll THEN flow
    ELSE IF flow.k = "WaitUntil"
         THEN IF flow_request.t < flow.t THEN flow_request ELSE flow
         ELSE flow_request

\* The merge loop of run: starts from Wait, folds the list in order
RECURSIVE merge_from(_, _)
merge_from(flow, window_control_flow) ==
    IF window_control_flow = <<>> THEN flow
    ELSE merge_from(merge_step(flow, Head(window_control_flow)),
                    Tail(window_control_flow))

merge(window_control_flow) == merge_from(Wait, window_control_flow)

\* ------------------------------------------------------ do_window_events
\* The root_window_exists loop over self.windows
RootWindowExists(ws) ==
    \E i \in 1..Len(ws) : ws[i].kind = "PlainWindow" /\ is_root(ws[i])

\* Mutant: a terminate request never drops the container
OutcomeNeverDrops(w, requested_control_flow, answer) ==
    IF requested_control_flow = Terminate
    THEN [push |-> Wait, drop |-> FALSE,
          can_quit |-> IF w.kind # "PlainWindow" THEN "none"
                       ELSE IF can_quit(w, answer) THEN "true" ELSE "false"]
    ELSE [push |-> requested_control_flow, drop |-> FALSE, can_quit |-> "none"]

\* Mutant: a denied terminate request is still reported as terminate
OutcomeDenialTerminates(w, requested_control_flow, answer) ==
    IF requested_control_flow = Terminate
    THEN IF w.kind = "PlainWindow"
         THEN IF can_quit(w, answer)
              THEN [push |-> Terminate, drop |-> TRUE, can_quit |-> "true"]
              ELSE [push |-> Terminate, drop |-> FALSE, can_quit |-> "false"]
         ELSE [push |-> Wait, drop |-> FALSE, can_quit |-> "none"]
    ELSE [push |-> requested_control_flow, drop |-> FALSE, can_quit |-> "none"]

\* Mutant: a terminate request drops the container whatever can_quit says
OutcomeIgnoresCanQuit(w, requested_control_flow, answer) ==
    IF requested_control_flow = Terminate
    THEN IF w.kind = "PlainWindow"
         THEN [push |-> Terminate, drop |-> TRUE,
               can_quit |-> IF can_quit(w, answer) THEN "true" ELSE "false"]
         ELSE [push |-> Wait, drop |-> FALSE, can_quit |-> "none"]
    ELSE [push |-> requested_control_flow, drop |-> FALSE, can_quit |-> "none"]

\* The match on requested_control_flow: what is pushed on
\* window_control_flow and whether the container is dropped (`continue`).
\* answer is the result of the can_quit call made here.
Outcome(w, requested_control_flow, answer) ==
    IF requested_control_flow = Terminate
    THEN IF w.kind = "PlainWindow"
         THEN IF can_quit(w, answer)
              THEN [push |-> Terminate, drop |-> TRUE, can_quit |-> "true"]
              ELSE [push |-> Wait, drop |-> FALSE, can_quit |-> "false"]
         ELSE [push |-> Wait, drop |-> FALSE, can_quit |-> "none"]
    ELSE [push |-> requested_control_flow, drop |-> FALSE, can_quit |-> "none"]

\* The requests of a dispatch that reach self.add: the `continue` of the
\* drop branch skips the loop over windows_to_create.
RequestsToAdd(o, windows_to_create) ==
    IF o.drop THEN <<>> ELSE windows_to_create

\* The part of an iteration after handle_event_outer returned h
AfterDispatch(st, rest, window, h, in) ==
    LET o == Outcome(h.w, h.r.requested_control_flow, in.cq2[window.id])
        reqs == RequestsToAdd(o, h.r.windows_to_create)
        st1 == [rest EXCEPT !.vset[window.fam] = h.r.vs,
                            !.flows = Append(@, o.push),
                            !.added = <<>>]
        st2 == add_all([st1 EXCEPT !.current_context = h.current_context],
                       reqs, in.createOk)
        entry == [id |-> window.id, kind |-> window.kind,
                  root_window_exists |-> h.r.root_window_exists,
                  taken |-> h.taken, during |-> h.during, gl |-> h.w.gl,
                  created_egui |-> h.created_egui,
                  current_context |-> h.current_context,
                  steps |-> h.r.steps,
                  req |-> h.r.requested_control_flow,
                  new |-> Len(h.r.windows_to_create),
                  can_quit |-> o.can_quit, reported |-> o.push,
                  removed |-> o.drop, inserted |-> st2.added]
    IN  IF h.panic # "none"
        THEN [st EXCEPT !.crashed = h.panic, !.unwound = <<entry>>]
        ELSE [st2 EXCEPT !.handled = IF o.drop THEN @ ELSE Append(@, h.w),
                         !.disp = Append(@, entry)]

\* One iteration of `while let Some(mut window) = self.windows.pop()`
PassStep(st, event, root_window_exists, in) ==
    LET n == Len(st.windows)
        window == st.windows[n]
        rest == [st EXCEPT !.windows = SubSeq(st.windows, 1, n - 1)]
    IN  IF ~is_event_for_window(window, event)
        THEN [rest EXCEPT !.handled = Append(@, window)]
        ELSE Bind(handle_event_outer(window, event, root_window_exists,
                                     st.fonts, st.current_context,
                                     st.vset[window.fam], in),
                  LAMBDA h : AfterDispatch(st, rest, window, h, in))

\* Mutant: the root flag is computed again before every iteration
RECURSIVE DrainRecomputingRoot(_, _, _, _)
DrainRecomputingRoot(st, event, root_window_exists, in) ==
    IF st.crashed # "none" \/ st.windows = <<>> THEN st
    ELSE Bind(PassStep(st, event, RootWindowExists(st.windows), in),
              LAMBDA next : DrainRecomputingRoot(next, event, root_window_exists, in))

\* The loop: one iteration, then the rest of the loop on its result
RECURSIVE Drain(_, _, _, _)
Drain(st, event, root_window_exists, in) ==
    IF st.crashed # "none" \/ st.windows = <<>> THEN st
    ELSE Bind(PassStep(st, event, root_window_exists, in),
              LAMBDA next : Drain(next, event, root_window_exists, in))

\* Mutant: the handled containers are appended in the order of the visits
do_window_events_without_reverse(st, event, in) ==
    LET d == Drain(st, event, RootWindowExists(st.windows), in)
    IN  IF d.crashed # "none" THEN d
        ELSE [d EXCEPT !.windows = d.windows \o d.handled,
                       !.handled = <<>>]

\* MultiWindow::do_window_events: the pass, then "Move them back"
do_window_events(st, event, in) ==
    Bind(Drain(st, event, RootWindowExists(st.windows), in), LAMBDA d :
        IF d.crashed # "none" THEN d
        ELSE [d EXCEPT !.windows = d.windows \o Reverse(d.handled),
                       !.handled = <<>>])

\* ------------------------------------------------------------------ run
\* event_loop_window_target.exit()
Exit == [k |-> "Exit", t |-> 0]

\* Mutant: a terminate request of one window ends the loop
LoopDecisionExitOnTerminate(ws, window_control_flow) ==
    IF ws = <<>> \/ \E i \in 1..Len(window_control_flow) :
                       window_control_flow[i] = Terminate
    THEN Exit ELSE merge(window_control_flow)

\* The decision at the end of the run closure: the merged flow is set on
\* the loop, or the loop is told to exit when no window is left.
LoopDecision(ws, window_control_flow) ==
    IF ws = <<>> THEN Exit ELSE merge(window_control_flow)

\* A viewport set is freed with the last request or container that shares it
LiveSets(ws, vs) ==
    [f \in DOMAIN vs |->
        IF \E i \in 1..Len(ws) : ws[i].fam = f THEN vs[f] ELSE {}]

\* Mutant: the requests that process_event returns are not inserted
run_dropping_requests(st, event, in) ==
    LET window_try == IF event.type = "UserEvent" THEN event.wid # 0 ELSE TRUE
    IN  Bind(IF window_try
             THEN do_window_events(st, event, in)
             ELSE [st EXCEPT !.flows = <<Poll>>],
             LAMBDA st1 : [st1 EXCEPT !.vset = LiveSets(st1.windows, st1.vset)])

\* The closure of MultiWindow::run on one event
run(st, event, in) ==
    LET window_try == IF event.type = "UserEvent" THEN event.wid # 0 ELSE TRUE
    IN  Bind(IF window_try
             THEN do_window_events(st, event, in)
             ELSE [add_all(st, in.new, in.createOk) EXCEPT !.flows = <<Poll>>],
             LAMBDA st1 : [st1 EXCEPT !.vset = LiveSets(st1.windows, st1.vset)])

\* ---------------------------------------------------------------- state
VARIABLES
    windows,              \* MultiWindow.windows: the live containers, in order
    vset,                 \* the viewport sets (Arc<Mutex<ViewportIdSet>>), by family
    nextId,               \* the native id the windowing backend hands out next
    started,              \* the event loop has delivered an event
    finished,             \* LoopExiting has been delivered
    crashed,              \* "none", or the panic that ended the process
    window_control_flow,  \* the schedules returned for the last event
    flow,                 \* what run last told the event loop
    current,              \* the event the run closure was last called with
    last,                 \* record of the last call: event, dispatches, insertions
    WINDOW_REQUEST_ID,    \* the static counter and the thread that holds its lock
    WINDOW_TABLE,         \* the static table and the thread that holds its lock
    callers,              \* where each thread is in new_id
    fonts,                \* MultiWindow.fonts: font name -> font data
    current_context,      \* the native id of the window whose rendering
                          \* context is current on the thread (0: none)
    arg,                  \* the arguments of the call that a specification of
                          \* one operation makes
    res                   \* the results of the calls made on arg, in order

vars == <<windows, vset, nextId, started, finished, crashed,
          window_control_flow, flow, current, last, arg, res,
          WINDOW_REQUEST_ID, WINDOW_TABLE, callers, fonts, current_context>>

statics == <<WINDOW_REQUEST_ID, WINDOW_TABLE, callers>>

\* lazy_static: counter 0, empty table, both locks free, no thread in new_id
StaticsInit ==
    /\ WINDOW_REQUEST_ID = [value |-> 0, owner |-> 0]
    /\ WINDOW_TABLE = [map |-> <<>>, owner |-> 0]
    /\ callers = [t \in 1..MaxThreads |-> "idle"]
    /\ fonts = <<>>
    /\ current_context = 0

NoCall == [event |-> [type |-> "none", wid |-> 0, we |-> "-"],
           root_window_exists |-> FALSE, disp |-> <<>>, added |-> <<>>,
           returned |-> 0, unwound |-> <<>>]

Init ==
    /\ windows = <<>>
    /\ vset = [f \in 1..MaxWindows |-> {}]
    /\ nextId = 1
    /\ started = FALSE
    /\ finished = FALSE
    /\ crashed = "none"
    /\ window_control_flow = <<>>
    /\ flow = Wait
    /\ current = NoCall.event
    /\ last = NoCall
    /\ arg = <<>>
    /\ res = <<>>
    /\ StaticsInit

\* --------------------------------------------------------------- inputs
AllTrue == [i \in 1..MaxWindows |-> TRUE]

BaseInput ==
    [quit |-> FALSE, new |-> <<>>, out |-> {}, cbs |-> {}, d |-> 0, now |-> 0,
     swapOk |-> TRUE, activateOk |-> TRUE, reassertOk |-> TRUE, createOk |-> TRUE,
     cq1 |-> AllTrue, cq2 |-> AllTrue]

\* can_quit answers: free for the windows in C, true elsewhere
Answers(C) ==
    {[i \in 1..MaxWindows |-> IF i \in C THEN f[i] ELSE TRUE] : f \in [C -> BOOLEAN]}

Matching(event) ==
    {i \in 1..Len(windows) : is_event_for_window(windows[i], event)}

\* Instant::now() is read only when the delay gives a WaitUntil
NowFor(quit, d) ==
    IF ~quit /\ as_millis(d) > 0 /\ as_millis(d) < RepaintLimitMillis
    THEN Instants ELSE {0}

\* The outcomes of the callbacks and backend calls that an event can meet.
\* An outcome is enumerated only where the code reads it: the responses of
\* redraw / custom_event for a plain window, the frame output for a redraw,
\* the repaint delay when the response does not quit, a can_quit answer for
\* a window with an overridden can_quit whose dispatch asks to terminate.
Inputs(event) ==
    LET M == Matching(event)
        isRedraw == event.type = "WindowEvent" /\ event.we = "RedrawRequested" /\ M # {}
        isClose == event.type = "WindowEvent" /\ event.we = "CloseRequested"
        isUser == event.type = "UserEvent"
        plain == \E i \in M : windows[i].kind = "PlainWindow" /\ ~windows[i].cb
        calls == (isRedraw \/ isUser) /\ plain
        forced(i) == ~RootWindowExists(windows) /\ ~is_root(windows[i])
        C(q) == {windows[i].id : i \in
                    {j \in M : /\ windows[j].cq = "custom"
                               /\ windows[j].kind = "PlainWindow"
                               /\ (isClose \/ forced(j) \/ (isRedraw /\ q))}}
        Q == IF calls THEN BOOLEAN ELSE {FALSE}
        N == IF calls \/ (isUser /\ event.wid = 0) THEN UserRequests ELSE {<<>>}
        \* a frame names viewports only where ui code runs: redraw of the
        \* window data or the deferred callback
        draws == \E i \in M : windows[i].kind = "PlainWindow" \/ windows[i].cb
        O == IF isRedraw /\ draws THEN SUBSET VpIds ELSE {{}}
        D(q) == IF isRedraw /\ ~q THEN Delays ELSE {0}
        normal == UNION {UNION {UNION {
                     [quit : {q}, new : N, out : {o}, cbs : SUBSET o, d : {d},
                      now : NowFor(q, d), swapOk : {TRUE}, activateOk : {TRUE},
                      reassertOk : {TRUE}, createOk : {TRUE},
                      cq1 : Answers(C(q)), cq2 : Answers(C(q))]
                     : d \in D(q)} : o \in O} : q \in Q}
        failing ==
            (IF \E i \in M : windows[i].gl = "NotCurrent"
             THEN {[BaseInput EXCEPT !.activateOk = FALSE]} ELSE {})
            \cup
            (IF isRedraw THEN {[BaseInput EXCEPT !.swapOk = FALSE]} ELSE {})
            \cup
            (IF \E i \in M : windows[i].gl = "PossiblyCurrent"
             THEN {[BaseInput EXCEPT !.reassertOk = FALSE]} ELSE {})
        \* the windowing backend has MaxWindows native windows to hand out
        room == MaxWindows + 1 - nextId
        requested(in) ==
            IF isRedraw
            THEN LET w == windows[CHOOSE i \in M : TRUE]
                     full_output == {ROOT} \cup in.out
                 IN  Cardinality(NewViewports(
                         RetainedViewports(w, vset[w.fam], full_output), full_output))
            ELSE 0
        fits(in) == Len(in.new) + requested(in) <= room
        \* the backend gives no window to a request of this call
        nowindow ==
            {[BaseInput EXCEPT !.new = n, !.out = o, !.createOk = FALSE] :
                n \in N, o \in O}
    IN  {in \in normal : fits(in)} \cup failing
        \cup {in \in nowindow : fits(in) /\ Len(in.new) + requested(in) > 0}

\* -------------------------------------------------------------- actions
\* MultiWindow::add called by the application before run
AddWindow ==
    /\ ~started /\ crashed = "none"
    /\ nextId <= MaxWindows
    /\ \E ty \in WindowTypes :
         LET st == add([windows |-> windows, nextId |-> nextId, added |-> <<>>],
                       NewWindowRequest(ty))
         IN  /\ windows' = st.windows
             /\ nextId' = st.nextId
             /\ last' = [NoCall EXCEPT !.event.type = "add", !.added = st.added]
    /\ UNCHANGED <<vset, started, finished, crashed, window_control_flow, flow,
                   current, arg, res, statics, fonts, current_context>>

\* The run closure called by the event loop with one event
Deliver(event, in) ==
    /\ ~finished /\ crashed = "none"
    /\ UNCHANGED <<arg, res, statics, fonts>>
    /\ LET st0 == [windows |-> windows, handled |-> <<>>, flows |-> <<>>,
                   vset |-> vset, nextId |-> nextId, added |-> <<>>,
                   fonts |-> fonts, current_context |-> current_context,
                   disp |-> <<>>, unwound |-> <<>>, crashed |-> "none"]
       IN  \E st1 \in {run(st0, event, in)} :
           /\ st1.nextId <= MaxWindows + 1
           /\ IF st1.crashed # "none"
              THEN \* the panic unwinds through run: the MultiWindow is dropped
                   /\ crashed' = st1.crashed
                   /\ windows' = <<>>
                   /\ vset' = [f \in 1..MaxWindows |-> {}]
                   /\ window_control_flow' = <<>>
                   /\ last' = [NoCall EXCEPT !.event = event,
                                             !.unwound = st1.unwound]
                   /\ UNCHANGED <<nextId, started, finished, flow, current_context>>
              ELSE /\ windows' = st1.windows
                   /\ vset' = st1.vset
                   /\ nextId' = st1.nextId
                   /\ started' = TRUE
                   /\ finished' = (event.type = "LoopExiting")
                   /\ window_control_flow' = st1.flows
                   /\ flow' = LoopDecision(st1.windows, st1.flows)
                   /\ current_context' = st1.current_context
                   /\ last' = [event |-> event,
                               root_window_exists |-> RootWindowExists(windows),
                               disp |-> st1.disp, added |-> st1.added,
                               \* requests returned by process_event
                               returned |-> IF event = UserEvent(0)
                                            THEN Len(in.new) ELSE 0,
                               unwound |-> <<>>]
                   /\ UNCHANGED crashed

\* The event loop calls the run closure with one event; the callbacks and
\* backend calls reached from it answer with one of Inputs(event)
Call(event) ==
    /\ current' = event
    /\ \E in \in Inputs(event) : Deliver(event, in)

\* a window-event other than a redraw request
OnWindowEvent ==
    \E id \in 1..(nextId - 1), we \in WindowEventKinds \ {"RedrawRequested"} :
        Call(WindowEvent(id, we))

OnRedrawRequested ==
    \E id \in 1..(nextId - 1) : Call(WindowEvent(id, "RedrawRequested"))

\* a user-event addressed to a window
OnUserEvent ==
    \E id \in 1..(nextId - 1) : Call(UserEvent(id))

\* a user-event addressed to no window: CommonEventHandler::process_event
OnProcessEvent == Call(UserEvent(0))

OnAboutToWait == Call(AboutToWait)

OnLoopExiting == Call(LoopExiting)

Next ==
    \/ AddWindow
    \/ OnWindowEvent
    \/ OnRedrawRequested
    \/ OnUserEvent
    \/ OnProcessEvent
    \/ OnAboutToWait
    \/ OnLoopExiting

Spec == Init /\ [][Next]_vars

\* ------------------------------------------- the merge on its own
\* The schedule lists that do_window_events or process_event can hand to
\* the merge loop of run
Schedules == {Poll, Wait, Terminate} \cup {WaitUntil(t) : t \in 1..MaxT}

ScheduleLists == UNION {[1..n -> Schedules] : n \in 0..MaxLen}

InitMerge ==
    /\ windows = <<>>
    /\ vset = [f \in 1..MaxWindows |-> {}]
    /\ nextId = 1
    /\ started = FALSE
    /\ finished = FALSE
    /\ crashed = "none"
    /\ window_control_flow \in ScheduleLists
    /\ flow = Wait
    /\ current = NoCall.event
    /\ last = NoCall
    /\ arg = <<>>
    /\ res = <<>>
    /\ StaticsInit

\* lines 991-1023 of run on the list
MergeList ==
    /\ ~started
    /\ started' = TRUE
    /\ flow' = merge(window_control_flow)
    /\ UNCHANGED <<windows, vset, nextId, finished, crashed,
                   window_control_flow, current, last, arg, res, statics, fonts, current_context>>

SpecMerge == InitMerge /\ [][MergeList]_vars

\* ------------------------------ the redraw of one window on its own
\* A container as handle_event sees it: holder taken, egui present
Dispatched(req) ==
    [TakeContext(Create(req, 1)) EXCEPT !.egui = "Some"]

RedrawnWindows ==
    {Dispatched(NewWindowRequest(ty)) : ty \in WindowTypes}
    \cup {Dispatched(NewViewportRequest(v, 1, c)) : v \in VpIds, c \in BOOLEAN}

RedrawInputs ==
    [quit : BOOLEAN, new : {<<>>}, out : SUBSET VpIds, cbs : {{}}, d : Delays,
     now : Instants, swapOk : {TRUE}, activateOk : {TRUE},
     reassertOk : {TRUE}, createOk : {TRUE},
     cq1 : {AllTrue}, cq2 : {AllTrue}]

InitSchedule ==
    /\ windows = <<>>
    /\ vset = [f \in 1..MaxWindows |-> {}]
    /\ nextId = 1
    /\ started = FALSE
    /\ finished = FALSE
    /\ crashed = "none"
    /\ window_control_flow = <<>>
    /\ flow = Wait
    /\ current = NoCall.event
    /\ last = NoCall
    /\ arg \in [w : RedrawnWindows, root_window_exists : BOOLEAN,
                vs : SUBSET VpIds, in : RedrawInputs]
    /\ res = <<>>
    /\ StaticsInit

\* handle_event on a RedrawRequested window-event
RedrawOnce ==
    /\ res = <<>>
    /\ res' = <<handle_event(arg.w, WindowEvent(arg.w.id, "RedrawRequested"),
                             arg.root_window_exists, arg.vs, arg.in)>>
    /\ UNCHANGED <<windows, vset, nextId, started, finished, crashed,
                   window_control_flow, flow, current, last, arg, statics, fonts, current_context>>

SpecSchedule == InitSchedule /\ [][RedrawOnce]_vars

\* --------------------------------- is_event_for_window on its own
\* every request an application or a redraw can hand to add
AllRequests ==
    {NewWindowRequest(ty) : ty \in WindowTypes}
    \cup {NewViewportRequest(v, 1, c) : v \in VpIds, c \in BOOLEAN}

\* every event the loop can deliver about the native windows 1..MaxWindows
AllEvents ==
    {WindowEvent(id, we) : id \in 1..MaxWindows, we \in WindowEventKinds}
    \cup {UserEvent(id) : id \in 0..MaxWindows}
    \cup {LoopExiting, AboutToWait}

\* The container that add makes of a.req when the backend hands out the
\* native id a.native, before or after its first dispatch
AddedContainer(a) ==
    LET st == add([windows |-> <<>>, nextId |-> a.native, added |-> <<>>], a.req)
        w == st.windows[1]
    IN  IF a.activated
        THEN handle_event_outer(w, AboutToWait, TRUE, <<>>, 0, {}, BaseInput).w
        ELSE w

InitMatches ==
    /\ windows = <<>>
    /\ vset = [f \in 1..MaxWindows |-> {}]
    /\ nextId = 1
    /\ started = FALSE
    /\ finished = FALSE
    /\ crashed = "none"
    /\ window_control_flow = <<>>
    /\ flow = Wait
    /\ current = NoCall.event
    /\ last = NoCall
    /\ arg \in [req : AllRequests, native : 1..MaxWindows,
                 activated : BOOLEAN, event : AllEvents]
    /\ res = <<>>
    /\ StaticsInit

\* is_event_for_window of the container on the event
MatchOnce ==
    /\ res = <<>>
    /\ windows' = <<AddedContainer(arg)>>
    /\ res' = <<is_event_for_window(AddedContainer(arg), arg.event)>>
    /\ UNCHANGED <<vset, nextId, started, finished, crashed,
                   window_control_flow, flow, current, last, arg, statics, fonts, current_context>>

SpecMatches == InitMatches /\ [][MatchOnce]_vars

\* ------------------------ redraws of the windows of one viewport family
\* The windows that share the registry of family 1: the window with window
\* data that owns it and the viewport windows made for its ids
FamilyWindows ==
    {Dispatched(NewWindowRequest([root |-> TRUE, cq |-> "default"]))}
    \cup {Dispatched(NewViewportRequest(v, 1, c)) : v \in VpIds, c \in BOOLEAN}

\* Frame outputs of a redraw of w: ui code runs for window data or for a
\* deferred callback only
FrameInputs(w) ==
    {[BaseInput EXCEPT !.out = o, !.cbs = c] :
        o \in (IF w.kind = "PlainWindow" \/ w.cb THEN SUBSET VpIds ELSE {{}}),
        c \in {{}, VpIds}}

InitViewports ==
    /\ windows = <<>>
    /\ vset \in {[f \in 1..MaxWindows |-> IF f = 1 THEN R ELSE {}] : R \in SUBSET VpIds}
    /\ nextId = 1
    /\ started = FALSE
    /\ finished = FALSE
    /\ crashed = "none"
    /\ window_control_flow = <<>>
    /\ flow = Wait
    /\ current = NoCall.event
    /\ last = NoCall
    /\ arg = <<>>
    /\ res = <<>>
    /\ StaticsInit

\* handle_event on a RedrawRequested window-event of one window of the
\* family, on the registry as the redraw before left it
RedrawNext ==
    /\ Len(res) < MaxRedraws
    /\ \E w \in FamilyWindows : \E in \in FrameInputs(w) :
         \E r \in {handle_event(w, WindowEvent(w.id, "RedrawRequested"),
                                TRUE, vset[1], in)} :
            /\ res' = Append(res, [w |-> w, registry |-> vset[1],
                                   full_output |-> {ROOT} \cup in.out,
                                   windows_to_create |-> r.windows_to_create,
                                   vs |-> r.vs, quit |-> r.quit])
            /\ vset' = [vset EXCEPT ![1] = r.vs]
    /\ UNCHANGED <<windows, nextId, started, finished, crashed,
                   window_control_flow, flow, current, last, arg, statics, fonts, current_context>>

SpecViewports == InitViewports /\ [][RedrawNext]_vars

\* ------------------------------------------- new_id and the id table
Threads == 1..MaxThreads
\* the values of the request-id counter
Tokens == 0..(2 ^ IdBits - 1)
\* Option<WindowId>::None as a table value; Some(id) is the native id
NoWindowId == 0

\* get_window_id on the table
get_window_id(table, id) ==
    IF id \in DOMAIN table THEN table[id] ELSE NoWindowId

\* Mutant: add leaves the table alone
set_window_id_never(table, id, w) == table

\* Mutant: add stores the native id under a token the table does not have
set_window_id_inserting(table, id, w) ==
    [k \in DOMAIN table \cup {id} |-> IF k = id THEN w ELSE table[k]]

\* The table update of add: `if let Some(id) = table.get_mut(&window.id)`
set_window_id(table, id, w) ==
    IF id \in DOMAIN table THEN [table EXCEPT ![id] = w] ELSE table
\* u32::wrapping_add(1) on a counter of IdBits bits
wrapping_add_1(l) == (l + 1) % (2 ^ IdBits)

OtherVars == <<windows, vset, nextId, started, finished, crashed,
               window_control_flow, flow, current, last, arg, fonts, current_context>>

\* a thread enters new_id: WINDOW_REQUEST_ID.lock()
NewIdLockRequestId(t) ==
    /\ callers[t] = "idle"
    /\ Len(res) < MaxCalls
    /\ WINDOW_REQUEST_ID.owner = 0
    /\ WINDOW_REQUEST_ID' = [WINDOW_REQUEST_ID EXCEPT !.owner = t]
    /\ callers' = [callers EXCEPT ![t] = "lock_table"]
    /\ UNCHANGED <<WINDOW_TABLE, res, OtherVars>>

\* WINDOW_TABLE.lock()
NewIdLockTable(t) ==
    /\ callers[t] = "lock_table"
    /\ WINDOW_TABLE.owner = 0
    /\ WINDOW_TABLE' = [WINDOW_TABLE EXCEPT !.owner = t]
    /\ callers' = [callers EXCEPT ![t] = "loop"]
    /\ UNCHANGED <<WINDOW_REQUEST_ID, res, OtherVars>>

\* Mutant: the counter value is taken without looking in the table
NewIdLoopUnchecked(t) ==
    /\ callers[t] = "loop"
    /\ LET l == wrapping_add_1(WINDOW_REQUEST_ID.value)
           map == WINDOW_TABLE.map
       IN  /\ WINDOW_REQUEST_ID' = [WINDOW_REQUEST_ID EXCEPT !.value = l]
           /\ WINDOW_TABLE' = [WINDOW_TABLE EXCEPT !.map =
                  [k \in DOMAIN map \cup {l} |-> IF k = l THEN NoWindowId ELSE map[k]]]
           /\ callers' = [callers EXCEPT ![t] = "return"]
    /\ UNCHANGED <<res, OtherVars>>

\* one iteration of the loop: add one, insert and break if the key is free
NewIdLoop(t) ==
    /\ callers[t] = "loop"
    /\ LET l == wrapping_add_1(WINDOW_REQUEST_ID.value)
           map == WINDOW_TABLE.map
       IN  /\ WINDOW_REQUEST_ID' = [WINDOW_REQUEST_ID EXCEPT !.value = l]
           /\ IF l \notin DOMAIN map
              THEN /\ WINDOW_TABLE' = [WINDOW_TABLE EXCEPT !.map =
                          [k \in DOMAIN map \cup {l} |-> IF k = l THEN NoWindowId ELSE map[k]]]
                   /\ callers' = [callers EXCEPT ![t] = "return"]
              ELSE UNCHANGED <<WINDOW_TABLE, callers>>
    /\ UNCHANGED <<res, OtherVars>>

\* `*l` is returned and both guards are dropped
NewIdReturn(t) ==
    /\ callers[t] = "return"
    /\ res' = Append(res, [thread |-> t, token |-> WINDOW_REQUEST_ID.value,
                           entry |-> IF get_window_id(WINDOW_TABLE.map,
                                                      WINDOW_REQUEST_ID.value) = NoWindowId
                                     THEN "None" ELSE "Some"])
    /\ WINDOW_REQUEST_ID' = [WINDOW_REQUEST_ID EXCEPT !.owner = 0]
    /\ WINDOW_TABLE' = [WINDOW_TABLE EXCEPT !.owner = 0]
    /\ callers' = [callers EXCEPT ![t] = "idle"]
    /\ UNCHANGED OtherVars

\* MultiWindow::add of a request that carries the token id: the container is
\* created, its native id is stored under the token if the table has the
\* token, and the container is pushed; the table lock is held to the end
AddRequest ==
    /\ WINDOW_TABLE.owner = 0
    /\ nextId <= MaxWindows
    /\ \E ty \in WindowTypes, id \in Tokens :
         LET st == add([windows |-> windows, nextId |-> nextId, added |-> <<>>],
                       NewWindowRequest(ty))
             w == st.windows[Len(st.windows)].id
         IN  /\ WINDOW_TABLE' = [WINDOW_TABLE EXCEPT
                                    !.map = set_window_id(@, id, w)]
             /\ windows' = st.windows
             /\ nextId' = st.nextId
             /\ last' = [NoCall EXCEPT !.event.type = "add", !.added = st.added]
             /\ arg' = Append(arg, [id |-> id, w |-> w,
                                    known |-> id \in DOMAIN WINDOW_TABLE.map])
    /\ UNCHANGED <<WINDOW_REQUEST_ID, callers, res, vset, started, finished,
                   crashed, window_control_flow, flow, current, fonts, current_context>>

NextIds ==
    \/ \E t \in Threads : NewIdLockRequestId(t)
    \/ \E t \in Threads : NewIdLockTable(t)
    \/ \E t \in Threads : NewIdLoop(t)
    \/ \E t \in Threads : NewIdReturn(t)
    \/ AddRequest

SpecIds == Init /\ [][NextIds]_vars

\* a close request for a window: the container is dropped if can_quit
\* allows it
OnCloseRequested ==
    \E id \in 1..(nextId - 1) : Call(WindowEvent(id, "CloseRequested"))

\* One thread that mints tokens, adds requests that carry them and runs the
\* event loop, which delivers close requests
NextTable ==
    \/ NewIdLockRequestId(1)
    \/ NewIdLockTable(1)
    \/ NewIdLoop(1)
    \/ NewIdReturn(1)
    \/ AddRequest
    \/ OnCloseRequested

SpecTable == Init /\ [][NextTable]_vars

\* ------------------------------------------------- the font table
\* MultiWindow::add_font: self.fonts.insert(name, fd)
add_font ==
    /\ ~finished /\ crashed = "none"
    /\ \E name \in 1..MaxFonts, fd \in 1..MaxData :
         /\ (name \in DOMAIN fonts => fonts[name] # fd)
         /\ fonts' = [n \in DOMAIN fonts \cup {name} |->
                         IF n = name THEN fd ELSE fonts[n]]
    /\ UNCHANGED <<windows, vset, nextId, started, finished, crashed,
                   window_control_flow, flow, current, last, arg, res, statics,
                   current_context>>

\* An application that registers fonts and adds windows at any time and
\* has user-events and about-to-wait notifications delivered
NextFonts ==
    \/ add_font
    \/ AddWindow
    \/ OnUserEvent
    \/ OnAboutToWait

SpecFonts == Init /\ [][NextFonts]_vars

\* ------------------------------------- one pass over a collection
\* native ids of the containers before the pass and of those it inserts
OrderIds == 1..(MaxBefore + MaxSpawn)

\* the collections a pass can start with: windows of any type, dispatched
\* before or not, with the native ids 1, 2, .. in the order of their add
OrderWindows ==
    UNION {{[i \in 1..n |->
                AddedContainer([req |-> NewWindowRequest(f[i].ty), native |-> i,
                                activated |-> f[i].act])] :
            f \in [1..n -> [ty : WindowTypes, act : BOOLEAN]]} : n \in 1..MaxBefore}

\* the events that run hands to do_window_events
OrderEvents ==
    {WindowEvent(id, we) : id \in 1..MaxBefore, we \in WindowEventKinds}
    \cup {UserEvent(id) : id \in 1..MaxBefore}
    \cup {LoopExiting, AboutToWait}

\* callback outcomes: the response of redraw / custom_event and the answers
\* of the two can_quit calls
OrderInputs ==
    {[BaseInput EXCEPT !.quit = q, !.new = n,
                       !.cq1 = [i \in OrderIds |-> a1],
                       !.cq2 = [i \in OrderIds |-> a2]] :
        q \in BOOLEAN, n \in UserRequests, a1 \in BOOLEAN, a2 \in BOOLEAN}

InitOrder ==
    /\ windows \in OrderWindows
    /\ vset = [f \in OrderIds |-> {}]
    /\ nextId = Len(windows) + 1
    /\ started = FALSE
    /\ finished = FALSE
    /\ crashed = "none"
    /\ window_control_flow = <<>>
    /\ flow = Wait
    /\ current = NoCall.event
    /\ last = NoCall
    /\ arg = <<>>
    /\ res = <<>>
    /\ StaticsInit

\* the run closure on one event that goes to do_window_events
PassOnce ==
    /\ ~started
    /\ \E event \in OrderEvents, in \in OrderInputs :
         LET st0 == [windows |-> windows, handled |-> <<>>, flows |-> <<>>,
                     vset |-> vset, nextId |-> nextId, added |-> <<>>,
                     fonts |-> fonts, current_context |-> current_context,
                     disp |-> <<>>, unwound |-> <<>>, crashed |-> "none"]
         IN  \E st1 \in {run(st0, event, in)} :
             /\ windows' = st1.windows
             /\ vset' = st1.vset
             /\ nextId' = st1.nextId
             /\ started' = TRUE
             /\ finished' = (event.type = "LoopExiting")
             /\ window_control_flow' = st1.flows
             /\ flow' = LoopDecision(st1.windows, st1.flows)
             /\ current_context' = st1.current_context
             /\ current' = event
             /\ last' = [event |-> event,
                         root_window_exists |-> RootWindowExists(windows),
                         disp |-> st1.disp, added |-> st1.added,
                         returned |-> 0, unwound |-> <<>>]
    /\ UNCHANGED <<crashed, arg, res, statics, fonts>>

SpecOrder == InitOrder /\ [][PassOnce]_vars

\* --------------------------------------------- create on its own
\* glutin::config::Config as create reads it: num_samples, and what the
\* backend answers to create_window_surface and create_context for it
Configs == [num_samples : 0..MaxSamples, surface : BOOLEAN, context : BOOLEAN]

\* what display.find_configs can yield, in the order of the backend
ConfigLists == UNION {[1..n -> Configs] : n \in 0..MaxConfigs}

\* the position a stable ascending sort gives to c among the sorted list s
RECURSIVE InsertBySamples(_, _)
InsertBySamples(s, c) ==
    IF s = <<>> THEN <<c>>
    ELSE IF Head(s).num_samples <= c.num_samples
         THEN <<Head(s)>> \o InsertBySamples(Tail(s), c)
         ELSE <<c>> \o s

\* configs.sort_by(|a, b| a.num_samples().cmp(&b.num_samples())): stable
RECURSIVE sort_by_num_samples(_)
sort_by_num_samples(configs) ==
    IF configs = <<>> THEN <<>>
    ELSE InsertBySamples(sort_by_num_samples(SubSeq(configs, 1, Len(configs) - 1)),
                         configs[Len(configs)])

\* The outcomes of create: a container, or the panic that ends the call
Created(w, config, tried) ==
    [ok |-> TRUE, panic |-> "none", container |-> <<w>>, config |-> <<config>>,
     tried |-> tried]
CreatePanics(why, tried) ==
    [ok |-> FALSE, panic |-> why, container |-> <<>>, config |-> <<>>,
     tried |-> tried]

\* "Try all configurations until one works": the loop over the sorted
\* configs; tried are the configs handed to create_window_surface so far
RECURSIVE TryConfigs(_, _, _, _, _)
TryConfigs(req, native, configs, b, tried) ==
    IF configs = <<>> THEN CreatePanics("No window created", tried)
    ELSE IF ~b.sized THEN CreatePanics("NonZeroU32", tried)
    ELSE LET config == Head(configs)
             now == Append(tried, config)
         IN  IF config.surface
             THEN IF config.context
                  THEN Created(Create(req, native), config, now)
                  ELSE CreatePanics("create_context", now)
             ELSE TryConfigs(req, native, Tail(configs), b, now)

\* TrackedWindowContainer::create; b are the answers of the backend
create(req, native, b) ==
    IF ~b.buildOk THEN CreatePanics("build", <<>>)
    ELSE IF ~b.displayOk THEN CreatePanics("No window created", <<>>)
    ELSE IF ~b.findOk THEN CreatePanics("find_configs", <<>>)
    ELSE TryConfigs(req, native, sort_by_num_samples(b.configs), b, <<>>)

Backends ==
    [buildOk : BOOLEAN, displayOk : BOOLEAN, findOk : BOOLEAN, sized : BOOLEAN,
     configs : ConfigLists]

InitCreate ==
    /\ windows = <<>>
    /\ vset = [f \in 1..MaxWindows |-> {}]
    /\ nextId = 1
    /\ started = FALSE
    /\ finished = FALSE
    /\ crashed = "none"
    /\ window_control_flow = <<>>
    /\ flow = Wait
    /\ current = NoCall.event
    /\ last = NoCall
    /\ arg \in [req : AllRequests, b : Backends]
    /\ res = <<>>
    /\ StaticsInit

\* one call of create
CreateOnce ==
    /\ res = <<>>
    /\ res' = <<create(arg.req, nextId, arg.b)>>
    /\ UNCHANGED <<windows, vset, nextId, started, finished, crashed,
                   window_control_flow, flow, current, last, arg, statics, fonts,
                   current_context>>

SpecCreate == InitCreate /\ [][CreateOnce]_vars

\* ------------------------------------- handle_event on its own
\* the events a matched window can be dispatched
HandledEvents ==
    {WindowEvent(1, we) : we \in WindowEventKinds}
    \cup {UserEvent(1), LoopExiting, AboutToWait}

\* the responses of redraw / custom_event and the frame output
HandleInputs ==
    {[BaseInput EXCEPT !.quit = q, !.new = n, !.out = o, !.d = d] :
        q \in BOOLEAN, n \in UserRequests, o \in SUBSET VpIds, d \in Delays}

InitHandle ==
    /\ windows = <<>>
    /\ vset = [f \in 1..MaxWindows |-> {}]
    /\ nextId = 1
    /\ started = FALSE
    /\ finished = FALSE
    /\ crashed = "none"
    /\ window_control_flow = <<>>
    /\ flow = Wait
    /\ current = NoCall.event
    /\ last = NoCall
    /\ arg \in [w : RedrawnWindows, event : HandledEvents,
                root_window_exists : BOOLEAN, vs : SUBSET VpIds, in : HandleInputs]
    /\ res = <<>>
    /\ StaticsInit

\* one call of handle_event
HandleOnce ==
    /\ res = <<>>
    /\ res' = <<handle_event(arg.w, arg.event, arg.root_window_exists,
                             arg.vs, arg.in)>>
    /\ UNCHANGED <<windows, vset, nextId, started, finished, crashed,
                   window_control_flow, flow, current, last, arg, statics, fonts,
                   current_context>>

SpecHandle == InitHandle /\ [][HandleOnce]_vars

\* ------------------------------------------------ the three locks
\* The thread that runs the event loop (and main before it); the other
\* threads of Threads are threads of the application
EventLoop == 1

LockOtherVars == <<windows, vset, nextId, started, finished, crashed,
                   window_control_flow, flow, current, last, fonts,
                   current_context>>

\* where the event-loop thread is (pc) and the thread that holds the lock
\* of the viewport set of the window being dispatched (0: free)
InitLocks ==
    /\ windows = <<>>
    /\ vset = [f \in 1..MaxWindows |-> {}]
    /\ nextId = 1
    /\ started = FALSE
    /\ finished = FALSE
    /\ crashed = "none"
    /\ window_control_flow = <<>>
    /\ flow = Wait
    /\ current = NoCall.event
    /\ last = NoCall
    /\ arg = [pc |-> "run", viewportset |-> 0]
    /\ res = <<>>
    /\ StaticsInit

\* code of the application outside a locked section of the library: any
\* thread but the event-loop thread inside add
InUserCode(t) ==
    /\ callers[t] = "idle"
    /\ t = EventLoop => arg.pc \in {"run", "handle_event"}

\* a thread calls new_id: from main or process_event, from redraw or
\* custom_event, from the reconciliation loop of the redraw closure, or from
\* a thread of the application
NewIdCall(t) ==
    /\ InUserCode(t)
    /\ Len(res) < MaxCalls
    /\ callers' = [callers EXCEPT ![t] = "lock_request_id"]
    /\ UNCHANGED <<WINDOW_REQUEST_ID, WINDOW_TABLE, res, OtherVars>>

\* WINDOW_REQUEST_ID.lock() of new_id returns
NewIdAcquireRequestId(t) ==
    /\ callers[t] = "lock_request_id"
    /\ WINDOW_REQUEST_ID.owner = 0
    /\ WINDOW_REQUEST_ID' = [WINDOW_REQUEST_ID EXCEPT !.owner = t]
    /\ callers' = [callers EXCEPT ![t] = "lock_table"]
    /\ UNCHANGED <<WINDOW_TABLE, res, OtherVars>>

\* a thread calls get_window_id
GetWindowIdCall(t) ==
    /\ InUserCode(t)
    /\ callers' = [callers EXCEPT ![t] = "get_lock"]
    /\ UNCHANGED <<WINDOW_REQUEST_ID, WINDOW_TABLE, res, OtherVars>>

\* WINDOW_TABLE.lock() of get_window_id returns
GetWindowIdLock(t) ==
    /\ callers[t] = "get_lock"
    /\ WINDOW_TABLE.owner = 0
    /\ WINDOW_TABLE' = [WINDOW_TABLE EXCEPT !.owner = t]
    /\ callers' = [callers EXCEPT ![t] = "get"]
    /\ UNCHANGED <<WINDOW_REQUEST_ID, res, OtherVars>>

\* get_window_id reads the table and returns: the guard is dropped
GetWindowIdReturn(t) ==
    /\ callers[t] = "get"
    /\ WINDOW_TABLE' = [WINDOW_TABLE EXCEPT !.owner = 0]
    /\ callers' = [callers EXCEPT ![t] = "idle"]
    /\ UNCHANGED <<WINDOW_REQUEST_ID, res, OtherVars>>

\* do_window_events calls handle_event for a window
HandleEventCall ==
    /\ arg.pc = "run" /\ callers[EventLoop] = "idle"
    /\ arg' = [arg EXCEPT !.pc = "lock_viewportset"]
    /\ UNCHANGED <<statics, res, LockOtherVars>>

\* self.viewportset.lock() at the start of handle_event returns
HandleEventLock ==
    /\ arg.pc = "lock_viewportset"
    /\ arg.viewportset = 0
    /\ arg' = [arg EXCEPT !.pc = "handle_event", !.viewportset = EventLoop]
    /\ UNCHANGED <<statics, res, LockOtherVars>>

\* Mutant: the guard of the viewport set outlives handle_event
HandleEventReturnKeepingGuard ==
    /\ arg.pc = "handle_event" /\ callers[EventLoop] = "idle"
    /\ arg' = [arg EXCEPT !.pc = "run"]
    /\ UNCHANGED <<statics, res, LockOtherVars>>

\* handle_event returns: the guard of the viewport set is dropped
HandleEventReturn ==
    /\ arg.pc = "handle_event" /\ callers[EventLoop] = "idle"
    /\ arg' = [arg EXCEPT !.pc = "run", !.viewportset = 0]
    /\ UNCHANGED <<statics, res, LockOtherVars>>

\* add is called (main, do_window_events, run): the container is created
AddCall ==
    /\ arg.pc = "run" /\ callers[EventLoop] = "idle"
    /\ nextId <= MaxWindows
    /\ arg' = [arg EXCEPT !.pc = "add_lock"]
    /\ UNCHANGED <<statics, res, LockOtherVars>>

\* WINDOW_TABLE.lock() of add returns
AddLock ==
    /\ arg.pc = "add_lock"
    /\ WINDOW_TABLE.owner = 0
    /\ WINDOW_TABLE' = [WINDOW_TABLE EXCEPT !.owner = EventLoop]
    /\ arg' = [arg EXCEPT !.pc = "add"]
    /\ UNCHANGED <<WINDOW_REQUEST_ID, callers, res, LockOtherVars>>

\* the rest of add: the table update, the push, the guard is dropped.  The
\* request is one of a root window that carries the token minted last, as
\* the requests of the examples do (new_id() in the constructor call)
AddReturn ==
    /\ arg.pc = "add"
    /\ LET st == add([windows |-> windows, nextId |-> nextId, added |-> <<>>],
                     NewWindowRequest([root |-> TRUE, cq |-> "default"]))
           w == st.windows[Len(st.windows)].id
       IN  /\ WINDOW_TABLE' = [map |-> set_window_id(WINDOW_TABLE.map,
                                                     WINDOW_REQUEST_ID.value, w),
                               owner |-> 0]
           /\ windows' = st.windows
           /\ nextId' = st.nextId
    /\ arg' = [arg EXCEPT !.pc = "run"]
    /\ UNCHANGED <<WINDOW_REQUEST_ID, callers, res, vset, started, finished,
                   crashed, window_control_flow, flow, current, last, fonts,
                   current_context>>

NextLocks ==
    \/ \E t \in Threads : NewIdCall(t)
    \/ \E t \in Threads : NewIdAcquireRequestId(t)
    \/ \E t \in Threads : NewIdLockTable(t)
    \/ \E t \in Threads : NewIdLoop(t)
    \/ \E t \in Threads : NewIdReturn(t)
    \/ \E t \in Threads : GetWindowIdCall(t)
    \/ \E t \in Threads : GetWindowIdLock(t)
    \/ \E t \in Threads : GetWindowIdReturn(t)
    \/ HandleEventCall
    \/ HandleEventLock
    \/ HandleEventReturn
    \/ AddCall
    \/ AddLock
    \/ AddReturn

\* A thread that is running keeps running; a thread that waits for a lock
\* that is released again and again gets it.  Nothing makes the
\* application call anything.
LockFairness ==
    /\ \A t \in Threads :
          /\ WF_vars(NewIdLoop(t))
          /\ WF_vars(NewIdReturn(t))
          /\ WF_vars(GetWindowIdReturn(t))
          /\ SF_vars(NewIdAcquireRequestId(t))
          /\ SF_vars(NewIdLockTable(t))
          /\ SF_vars(GetWindowIdLock(t))
    /\ WF_vars(HandleEventLock)
    /\ WF_vars(HandleEventReturn)
    /\ WF_vars(AddReturn)
    /\ SF_vars(AddLock)

SpecLocks == InitLocks /\ [][NextLocks]_vars /\ LockFairness

\* ---------------------------------------------------------- fairness
\* The event loop emits an about-to-wait notification in every iteration
FairSpec == Spec /\ WF_vars(OnAboutToWait)

\* ------------------------------------------------------------- claims
\* the last call was a do_window_events pass, and it returned
PassReturned ==
    /\ crashed = "none"
    /\ \/ last.event.type \in {"WindowEvent", "LoopExiting", "AboutToWait"}
       \/ last.event.type = "UserEvent" /\ last.event.wid # 0

Dispatches == 1..Len(last.disp)

\* C1: between calls no container holds the empty placeholder; every
\* dispatch took a holder, left the slot empty only during the call and put
\* a PossiblyCurrent holder back, on every branch; the panics "there's no
\* window context" and "had a GL context while borrowing" never happen.
C1_HolderPutBack ==
    /\ crashed \notin {"no_context", "had_context"}
    /\ \A i \in 1..Len(windows) : windows[i].gl # "None"
    /\ \A k \in Dispatches :
         /\ last.disp[k].taken # "None"
         /\ last.disp[k].during = "None"
         /\ last.disp[k].gl = "PossiblyCurrent"
    /\ \A i \in 1..Len(windows) :
         (\E k \in Dispatches : last.disp[k].id = windows[i].id)
            => windows[i].gl = "PossiblyCurrent"

\* C1 witness: a dispatch of an already activated window asked to
\* terminate, can_quit denied, and the container is back with its holder
C1_Witness ==
    \E k \in Dispatches, i \in 1..Len(windows) :
        /\ last.disp[k].req = Terminate
        /\ last.disp[k].taken = "PossiblyCurrent"
        /\ ~last.disp[k].removed
        /\ windows[i].id = last.disp[k].id
        /\ windows[i].gl = "PossiblyCurrent"

\* C2 as stated: after a pass every live container is PossiblyCurrent
C2_AllPossiblyCurrent ==
    PassReturned => \A i \in 1..Len(windows) : windows[i].gl = "PossiblyCurrent"

\* C2 amended: after any sequence of add calls and passes no live container
\* holds the empty placeholder; after a pass a container dispatched in it is
\* PossiblyCurrent, a container inserted in it and not dispatched is
\* NotCurrent, and a container is NotCurrent exactly as long as it has never
\* been dispatched.
C2_HolderPresent ==
    /\ \A i \in 1..Len(windows) : windows[i].gl \in {"NotCurrent", "PossiblyCurrent"}
    /\ PassReturned =>
        \A i \in 1..Len(windows) :
            LET w == windows[i]
                dispatched == \E k \in Dispatches : last.disp[k].id = w.id
                inserted == \E k \in Dispatches : \E j \in 1..Len(last.disp[k].inserted) :
                               last.disp[k].inserted[j] = w.id
            IN  /\ dispatched => w.gl = "PossiblyCurrent"
                /\ (inserted /\ ~dispatched) => w.gl = "NotCurrent"
                /\ (w.gl = "NotCurrent") <=> (w.egui = "None")

\* C2 witness: a pass returned with a dispatched container next to one
\* that the event did not match and that is still NotCurrent
C2_Witness ==
    /\ PassReturned
    /\ \E i, j \in 1..Len(windows) :
         /\ windows[i].gl = "NotCurrent"
         /\ windows[j].gl = "PossiblyCurrent"
         /\ \E k \in Dispatches : last.disp[k].id = windows[j].id

NoRoot ==
    started /\ ~finished /\ crashed = "none" /\ ~RootWindowExists(windows)

Stopped == finished \/ crashed # "none"

C5_ExitIffEmpty ==
    (started /\ crashed = "none") => ((flow = Exit) <=> (windows = <<>>))

\* C5 witness: a window terminated and was removed, another one is live and
\* the loop was not told to exit
C5_Witness ==
    /\ started /\ crashed = "none"
    /\ \E k \in 1..Len(window_control_flow) : window_control_flow[k] = Terminate
    /\ windows # <<>>
    /\ flow # Exit

\* C6: a dispatch that asks to terminate and whose can_quit call returns
\* false leaves the container in the collection and reports Wait
C6_DenialKeepsWindow ==
    PassReturned =>
        \A k \in Dispatches :
            (last.disp[k].req = Terminate /\ last.disp[k].can_quit = "false")
            => /\ ~last.disp[k].removed
               /\ last.disp[k].reported = Wait
               /\ window_control_flow[k] = Wait
               /\ last.disp[k].id \in Ids(windows)

\* C6 witness: a terminate request was denied by can_quit
C6_Witness ==
    /\ PassReturned
    /\ \E k \in Dispatches :
         last.disp[k].req = Terminate /\ last.disp[k].can_quit = "false"

\* C7: a container leaves the collection in a pass exactly when its
\* dispatch in that pass returned terminate and the can_quit call of its
\* window data returned true
C7_RemovedIffPermitted ==
    [][PassReturned' =>
          \A i \in 1..Len(windows) :
              (windows[i].id \notin Ids(windows'))
              <=> \E k \in 1..Len(last'.disp) :
                     /\ last'.disp[k].id = windows[i].id
                     /\ last'.disp[k].req = Terminate
                     /\ last'.disp[k].can_quit = "true"]_vars

\* C7 witness: a permitted terminate removed a container while another
\* container stayed
C7_Witness ==
    /\ PassReturned
    /\ windows # <<>>
    /\ \E k \in Dispatches :
         /\ last.disp[k].removed
         /\ last.disp[k].can_quit = "true"
         /\ last.disp[k].id \notin Ids(windows)

\* C8: every request in the spawn list of a dispatch is inserted before
\* the pass returns, whatever schedule the dispatch returned
C8_SpawnsInserted ==
    PassReturned =>
        \A k \in Dispatches : Len(last.disp[k].inserted) = last.disp[k].new

\* the elements of a schedule list
Elements(list) == {list[i] : i \in 1..Len(list)}

\* Poll > WaitUntil(earliest) > Wait, terminate entries contribute nothing
Precedence(list) ==
    IF Poll \in Elements(list) THEN Poll
    ELSE IF \E x \in Elements(list) : x.k = "WaitUntil"
    THEN WaitUntil(Min({x.t : x \in {y \in Elements(list) : y.k = "WaitUntil"}}))
    ELSE Wait

\* C9: the merge of a schedule list is Poll if an entry is Poll, otherwise
\* WaitUntil of the earliest instant if there is one, otherwise Wait, in any
\* order of the entries
C9_MergePrecedence ==
    started => flow = Precedence(window_control_flow)

\* C9 witness: a later WaitUntil, a terminate and an earlier WaitUntil merge
\* to the earlier WaitUntil
C9_Witness ==
    /\ started
    /\ window_control_flow = <<WaitUntil(2), Terminate, WaitUntil(1)>>
    /\ flow = WaitUntil(1)

\* C10: in a redraw whose frame output has the window's own viewport id
\* and that root absence does not force to terminate: quit gives terminate;
\* else d = 0 gives Poll and a redraw request; else 0 < d < 10 s gives
\* WaitUntil(now + d); else Wait
C10_ScheduleDerivation ==
    (/\ res # <<>>
     /\ arg.w.vpid \in {ROOT} \cup arg.in.out
     /\ ~res[1].forced)
    => LET r == res[1]
           d == arg.in.d
       IN  IF r.quit THEN r.requested_control_flow = Terminate
           ELSE IF d = 0
                THEN r.requested_control_flow = Poll /\ r.request_redraw
           ELSE IF d < RepaintLimitMillis * MicrosPerMilli
                THEN r.requested_control_flow = WaitUntil(arg.in.now + d)
           ELSE r.requested_control_flow = Wait

\* the viewport ids of the requests that a redraw made, in order
SpawnedIds(e) ==
    LET vps == SelectSeq(e.windows_to_create, LAMBDA q : q.vb)
    IN  [i \in 1..Len(vps) |-> vps[i].vpid]

\* how many requests a redraw made for id
SpawnCount(e, id) ==
    Cardinality({i \in 1..Len(SpawnedIds(e)) : SpawnedIds(e)[i] = id})

\* C11: a redraw of the window that owns the registry R, with frame output
\* O, makes exactly one request for each id of O that is not the root id
\* and not in R, none for any other id, and leaves the registry
\* (R \cap O) \cup (O \ {root id})
C11_Reconciliation ==
    \A k \in 1..Len(res) :
        LET e == res[k]
            R == e.registry
            O == e.full_output
        IN  e.w.kind = "PlainWindow" =>
               /\ \A id \in VpIds \cup {ROOT} :
                     SpawnCount(e, id) =
                        IF id \in O /\ id # ROOT /\ id \notin R THEN 1 ELSE 0
               /\ e.vs = (R \cap O) \cup (O \ {ROOT})

\* C11 witness: R = {1}, O = {root, 1, 2} made one request, for 2, and left
\* {1, 2}; then R = {1, 2}, O = {root, 1} removed 2 and made no request
C11_Witness ==
    \E k \in 1..Len(res) : \E j \in 1..Len(res) :
        /\ res[k].w.kind = "PlainWindow"
        /\ res[k].registry = {1} /\ res[k].full_output = {ROOT, 1, 2}
        /\ SpawnedIds(res[k]) = <<2>> /\ res[k].vs = {1, 2}
        /\ res[j].w.kind = "PlainWindow"
        /\ res[j].registry = {1, 2} /\ res[j].full_output = {ROOT, 1}
        /\ SpawnedIds(res[j]) = <<>> /\ res[j].vs = {1}

C14_OnlyRootRemoves ==
    \A k \in 1..Len(res) :
        (res[k].registry \ res[k].vs # {}) => res[k].w.kind = "PlainWindow"

\* C12: between events a viewport id is in the registry of a family
\* exactly when a live container of that family has that viewport id (a
\* request is pending only inside a pass: do_window_events inserts it
\* before it returns)
C12_RegistryMatchesWindows ==
    crashed = "none" =>
        \A f \in 1..MaxWindows : \A v \in VpIds :
            v \in vset[f]
            <=> \E i \in 1..Len(windows) :
                   /\ windows[i].kind = "Viewport"
                   /\ windows[i].fam = f
                   /\ windows[i].vpid = v

\* C15: a redraw of a viewport window whose own id is not in the registry
\* returns the terminate schedule and the pass removes its container
C15_ViewportQuitRemoved ==
    [][(/\ PassReturned'
        /\ last'.event.type = "WindowEvent"
        /\ last'.event.we = "RedrawRequested"
        /\ \E i \in 1..Len(windows) :
              /\ windows[i].id = last'.event.wid
              /\ windows[i].kind = "Viewport"
              /\ windows[i].vpid \notin vset[windows[i].fam])
       => /\ \E k \in 1..Len(last'.disp) :
                /\ last'.disp[k].id = last'.event.wid
                /\ last'.disp[k].req = Terminate
          /\ last'.event.wid \notin Ids(windows')]_vars

\* C16: every dispatch of a pass gets the root flag computed over the
\* collection as it was when the pass started, whatever the pass removed
\* or inserted before that dispatch
C16_RootFlagFromPassStart ==
    [][PassReturned' =>
          /\ last'.root_window_exists = RootWindowExists(windows)
          /\ \A k \in 1..Len(last'.disp) :
                last'.disp[k].root_window_exists = RootWindowExists(windows)]_vars

\* C16 witness: a pass that started without a root window inserted one, and
\* its dispatch was still told that no root window exists
C16_Witness ==
    /\ PassReturned
    /\ RootWindowExists(windows)
    /\ \E k \in Dispatches :
         /\ ~last.disp[k].root_window_exists
         /\ last.disp[k].req = Terminate
         /\ last.disp[k].inserted # <<>>

\* C19: a user-event addressed to no window is dispatched to no window,
\* every request that process_event returns is inserted, and the schedule
\* list handed to the merge is <<Poll>>
C19_ProcessEvent ==
    (crashed = "none" /\ last.event = UserEvent(0)) =>
        /\ last.disp = <<>>
        /\ Len(last.added) = last.returned
        /\ \A j \in 1..Len(last.added) : last.added[j] \in Ids(windows)
        /\ window_control_flow = <<Poll>>
        /\ flow = IF windows = <<>> THEN Exit ELSE Poll

\* C19 witness: process_event returned a request, its window is in the
\* collection next to an older one that was not dispatched
C19_Witness ==
    /\ crashed = "none" /\ last.event = UserEvent(0)
    /\ last.returned = 1 /\ Len(last.added) = 1
    /\ Len(windows) = 2
    /\ windows[1].gl = "PossiblyCurrent"
    /\ flow = Poll

\* C17: the container that add made answers true for every window-event
\* addressed to its own native id and false for every window-event
\* addressed to another id, before and after its first activation
C17_MatchesOwnWindowEvents ==
    (res # <<>> /\ arg.event.type = "WindowEvent") =>
        /\ windows[1].id = arg.native
        /\ windows[1].gl = IF arg.activated THEN "PossiblyCurrent" ELSE "NotCurrent"
        /\ res[1] = (arg.event.wid = arg.native)

\* C17 witness: a container that was never activated answered false for a
\* window-event of another window
C17_Witness ==
    /\ res = <<FALSE>>
    /\ arg.event.type = "WindowEvent"
    /\ arg.event.wid # arg.native
    /\ windows[1].gl = "NotCurrent"

\* C18 as stated: a user-event addressed to no window is for every container
C18_BroadcastMatches ==
    (res # <<>> /\ arg.event = UserEvent(0)) => res[1] = TRUE

\* C18 amended: a user-event addressed to no window is for no container,
\* activated or not
C18_BroadcastNotForWindow ==
    (res # <<>> /\ arg.event = UserEvent(0)) =>
        /\ windows[1].gl = IF arg.activated THEN "PossiblyCurrent" ELSE "NotCurrent"
        /\ res[1] = FALSE

\* C18 witness: an activated container answered false for a user-event
\* addressed to no window
C18_Witness ==
    /\ res = <<FALSE>>
    /\ arg.event = UserEvent(0)
    /\ arg.activated
    /\ windows[1].gl = "PossiblyCurrent"

\* C20: a call of new_id returns a token that no earlier call returned,
\* also after the counter wrapped and with calls from several threads, and
\* the table holds the token with an absent value when the call returns
C20_FreshToken ==
    /\ \A i \in 1..Len(res) : \A j \in 1..Len(res) :
          i # j => res[i].token # res[j].token
    /\ \A i \in 1..Len(res) :
          /\ res[i].entry = "None"
          /\ res[i].token \in DOMAIN WINDOW_TABLE.map

\* C20 witness: calls from two threads returned every token of the counter,
\* the last one after the counter wrapped to 0
C20_Witness ==
    /\ Len(res) = 2 ^ IdBits
    /\ res[Len(res)].token = 0
    /\ \E i \in 1..Len(res) : \E j \in 1..Len(res) : res[i].thread # res[j].thread

\* the native id that the last add of a request with a token the table had
\* stored for the token, or none
Published(id) ==
    LET adds == {i \in 1..Len(arg) : arg[i].id = id /\ arg[i].known}
    IN  IF adds = {} THEN NoWindowId
        ELSE arg[CHOOSE i \in adds : \A j \in adds : j <= i].w

\* C21: get_window_id returns none for a token that new_id never returned
\* and for a token no add has carried yet; after an add of a request that
\* carries a token of new_id it returns the native id of the container that
\* this add made, and that container is in the collection
C21_TokenResolution ==
    /\ \A id \in Tokens :
          /\ get_window_id(WINDOW_TABLE.map, id) = Published(id)
          /\ id \notin DOMAIN WINDOW_TABLE.map
                => get_window_id(WINDOW_TABLE.map, id) = NoWindowId
    /\ \A i \in 1..Len(arg) :
          /\ arg[i].w \in Ids(windows)
          /\ (arg[i].known /\ \A j \in (i + 1)..Len(arg) : arg[j].id # arg[i].id)
                => get_window_id(WINDOW_TABLE.map, arg[i].id) = arg[i].w

\* C21 witness: new_id returned two tokens; the add that carried the first
\* one made the window that the token resolves to, the second token still
\* resolves to none
C21_Witness ==
    /\ Len(res) >= 2 /\ Len(arg) = 1
    /\ arg[1].id = res[1].token
    /\ get_window_id(WINDOW_TABLE.map, res[1].token) = arg[1].w
    /\ arg[1].w \in Ids(windows)
    /\ get_window_id(WINDOW_TABLE.map, res[2].token) = NoWindowId

\* C22: the fonts of a window are the font table as it is at the dispatch
\* that creates its egui context; no later add_font and no later dispatch
\* changes them; a window without egui context has no fonts
C22_FontsFixedAtFirstDispatch ==
    [][\A j \in 1..Len(windows') :
          LET n == windows'[j]
              before == {i \in 1..Len(windows) : windows[i].id = n.id}
          IN  IF \E i \in before : windows[i].egui = "Some"
              THEN /\ n.egui = "Some"
                   /\ \A i \in before : n.fonts = windows[i].fonts
              ELSE IF n.egui = "Some"
              THEN /\ n.fonts = fonts
                   /\ \E k \in 1..Len(last'.disp) :
                          last'.disp[k].id = n.id /\ last'.disp[k].created_egui
              ELSE n.fonts = <<>>]_vars

\* C22 witness: a font was registered after the first dispatch of a window;
\* the window was dispatched again and still has the fonts of its first
\* dispatch
C22_Witness ==
    \E i \in 1..Len(windows) : \E k \in Dispatches :
        /\ last.disp[k].id = windows[i].id
        /\ ~last.disp[k].created_egui
        /\ windows[i].egui = "Some"
        /\ windows[i].fonts # fonts
        /\ fonts # <<>>

\* the dispatches of the last call of the window with native id
DispatchesOf(log, id) == {k \in 1..Len(log) : log[k].id = id}

\* C23: a container has no egui context from its creation until its first
\* dispatch (exactly as long as its holder is NotCurrent); its first
\* dispatch creates the context before handle_event runs (the "wasn't fully
\* initialized" panic never happens); a container that has the context
\* keeps it over every call and no later dispatch creates one again
C23_EguiPersists ==
    /\ [](crashed # "not_initialized")
    /\ [](\A i \in 1..Len(windows) :
             (windows[i].egui = "None") <=> (windows[i].gl = "NotCurrent"))
    /\ [][\A j \in 1..Len(windows') :
            LET n == windows'[j]
                had == \E i \in 1..Len(windows) :
                          windows[i].id = n.id /\ windows[i].egui = "Some"
                made == {k \in DispatchesOf(last'.disp, n.id) :
                            last'.disp[k].created_egui}
            IN  IF had
                THEN n.egui = "Some" /\ made = {}
                ELSE /\ (n.egui = "Some") <=> (DispatchesOf(last'.disp, n.id) # {})
                     /\ made = DispatchesOf(last'.disp, n.id)]_vars

\* C23 witness: a window that had its egui context asked to terminate, its
\* teardown ran, can_quit then denied the removal, and the window is still
\* in the collection with its context
C23_Witness ==
    \E i \in 1..Len(windows) : \E k \in Dispatches :
        /\ last.disp[k].id = windows[i].id
        /\ ~last.disp[k].created_egui
        /\ last.disp[k].req = Terminate
        /\ last.disp[k].can_quit = "false"
        /\ windows[i].destroyed
        /\ windows[i].egui = "Some"

\* C24: a redraw whose swap_buffers call fails does not end the process:
\* the call returns and the redrawn window is still in the collection
C24_PresentFailureNonFatal ==
    /\ crashed # "swap_buffers"
    /\ \A k \in 1..Len(last.unwound) :
          \/ last.unwound[k].steps = <<>>
          \/ Head(last.unwound[k].steps) # "redraw"
          \/ last.unwound[k].id \in Ids(windows)

\* C25: every dispatch leaves the container with a holder, the dispatches
\* that a panic ended included: the container that handle_event_outer was
\* unwinding from does not hold the empty placeholder
C25_HolderPutBackOnEveryExit ==
    /\ \A k \in Dispatches : last.disp[k].gl = "PossiblyCurrent"
    /\ \A k \in 1..Len(last.unwound) : last.unwound[k].gl # "None"

\* C26: a request that a dispatch of a pass returned and whose window cannot
\* be created is dropped and nothing else happens: the pass goes on, the
\* call returns and the process is not ended
C26_CreateFailureDropsRequest ==
    ~(/\ crashed = "create"
      /\ \/ last.event.type \in {"WindowEvent", "LoopExiting", "AboutToWait"}
         \/ last.event.type = "UserEvent" /\ last.event.wid # 0)

\* the loop wakes up under f no later than under the schedule s
NotLessUrgent(f, s) ==
    \/ f = Poll
    \/ s = Wait \/ s = Terminate
    \/ s.k = "WaitUntil" /\ f.k = "WaitUntil" /\ f.t <= s.t

\* C27: the flow that run sets after an event is not less urgent than the
\* schedule of any window dispatched for this event, nor than the schedule
\* that a window still in the collection returned for the event before when
\* this event is not dispatched to it
C27_FlowAggregatesLiveWindows ==
    [][(crashed' = "none" /\ started' /\ last' # last /\ windows' # <<>>) =>
          /\ \A k \in 1..Len(last'.disp) :
                NotLessUrgent(flow', last'.disp[k].reported)
          /\ \A k \in 1..Len(last.disp) :
                (/\ last.disp[k].id \in Ids(windows')
                 /\ DispatchesOf(last'.disp, last.disp[k].id) = {})
                => NotLessUrgent(flow', last.disp[k].reported)]_vars

\* the dispatches of window-events in the last call
WindowEventDispatches ==
    {k \in Dispatches : last.event.type = "WindowEvent"}

\* C28 as stated: a close request sets the terminate schedule and is not
\* forwarded to on_window_event; only window-events other than resize,
\* close request and redraw request are forwarded
C28_OnlyOtherForwarded ==
    \A k \in WindowEventDispatches :
        LET forwarded == \E n \in 1..Len(last.disp[k].steps) :
                            last.disp[k].steps[n] = "on_window_event"
        IN  /\ last.event.we = "CloseRequested" => last.disp[k].req = Terminate
            /\ forwarded <=>
                  last.event.we \notin {"Resized", "CloseRequested", "RedrawRequested"}

\* C28 amended: every window-event is forwarded to on_window_event, as the
\* last step of its dispatch: a close request after the terminate schedule
\* is set (and the dispatch returns terminate), a resize after the surface
\* is resized, a redraw request after the redraw ran
C28_ForwardedAfterMatch ==
    \A k \in WindowEventDispatches :
        LET steps == last.disp[k].steps
            first == IF last.event.we = "Resized" THEN <<"resize">>
                     ELSE IF last.event.we = "CloseRequested" THEN <<"control_flow = None">>
                     ELSE IF last.event.we = "RedrawRequested" THEN <<"redraw">>
                     ELSE <<>>
        IN  /\ steps = first \o <<"on_window_event">>
            /\ last.event.we = "CloseRequested" => last.disp[k].req = Terminate

\* C28 witness: a close request was dispatched, set the terminate schedule
\* and was then forwarded
C28_Witness ==
    \E k \in WindowEventDispatches :
        /\ last.event.we = "CloseRequested"
        /\ last.disp[k].req = Terminate
        /\ last.disp[k].steps = <<"control_flow = None", "on_window_event">>

\* C29: in every dispatch the context of the dispatched window is the
\* current one while handle_event runs (its redraw or custom_event
\* included), whether the holder was NotCurrent or PossiblyCurrent, and the
\* only activation that ends the process is that of a NotCurrent holder
C29_ContextCurrentOnDispatch ==
    /\ \A k \in Dispatches :
          /\ last.disp[k].taken \in {"NotCurrent", "PossiblyCurrent"}
          /\ last.disp[k].current_context = last.disp[k].id
    /\ \A k \in 1..Len(last.unwound) :
          crashed = "make_current" => last.unwound[k].taken = "NotCurrent"

\* the place of the container with native id in the collection ws
Place(ws, id) == CHOOSE p \in 1..Len(ws) : ws[p].id = id

\* C30: a pass dispatches the containers it started with from the last one
\* of the collection to the first, and the containers that are in the
\* collection before and after the pass are in the same order after it,
\* whatever the pass matched, removed or inserted
C30_OrderKept ==
    [][started' =>
          /\ \A a \in Ids(windows) \cap Ids(windows') :
             \A b \in Ids(windows) \cap Ids(windows') :
                Place(windows, a) < Place(windows, b)
                    => Place(windows', a) < Place(windows', b)
          /\ \A k \in 1..Len(last'.disp) : \A m \in 1..Len(last'.disp) :
                (/\ k < m
                 /\ last'.disp[k].id \in Ids(windows)
                 /\ last'.disp[m].id \in Ids(windows))
                => Place(windows, last'.disp[k].id) > Place(windows, last'.disp[m].id)]_vars

\* C30 witness: the pass started with the windows 1, 2, 3, the dispatch of
\* window 2 inserted window 4, and the pass left 1, 4, 2, 3
C30_Witness ==
    /\ started
    /\ Len(windows) = 4
    /\ \A i \in 1..4 : windows[i].id = <<1, 4, 2, 3>>[i]
    /\ \E k \in Dispatches : last.disp[k].id = 2 /\ last.disp[k].inserted = <<4>>

\* a create call whose window, display and config list the backend gave
CreateTried ==
    /\ res # <<>>
    /\ arg.b.buildOk /\ arg.b.displayOk /\ arg.b.findOk /\ arg.b.sized

\* the positions, in ascending sample-count order, of the candidates that
\* yield a working surface and a working context
Working(configs) ==
    {i \in 1..Len(sort_by_num_samples(configs)) :
        sort_by_num_samples(configs)[i].surface
        /\ sort_by_num_samples(configs)[i].context}

\* C31: create tries the candidates in ascending sample-count order and
\* uses the first one that yields a working surface and context, moving on
\* when a candidate is rejected; it fails only when no candidate works, and
\* on success the holder is NotCurrent and there is no UI context.
C31_FirstWorkingCandidate ==
    CreateTried =>
        /\ res[1].ok <=> Working(arg.b.configs) # {}
        /\ res[1].ok =>
              /\ res[1].config[1] =
                    sort_by_num_samples(arg.b.configs)[Min(Working(arg.b.configs))]
              /\ res[1].container[1].gl = "NotCurrent"
              /\ res[1].container[1].egui = "None"

\* C32: a container that is in the collection after a pass for an event
\* other than loop-exit has not had its egui context torn down: the
\* egui.destroy() of try_quit and the drop decision of do_window_events
\* agree although each makes its own can_quit call.  A teardown happens in
\* a pass for another event only through try_quit, so a live container with
\* a destroyed egui context is one whose two can_quit calls disagreed.
C32_TeardownAgreesWithDrop ==
    (PassReturned /\ last.event.type # "LoopExiting") =>
        \A i \in 1..Len(windows) : ~windows[i].destroyed

\* a handle_event call for an event that is neither a redraw request nor a
\* close request
OtherEventHandled ==
    /\ res # <<>>
    /\ ~(arg.event.type = "WindowEvent"
         /\ arg.event.we \in {"RedrawRequested", "CloseRequested"})

OwnViewportMissing ==
    /\ res # <<>>
    /\ arg.w.vpid \notin ({ROOT} \cup arg.in.out)

\* C34: when the frame output of a redraw has no record for the window's
\* own viewport id the repaint delay is zero whatever the frame reports:
\* the response signals quit and the schedule is terminate, or the window
\* requests a native redraw and its schedule is Poll
C34_MissingRecordPolls ==
    OwnViewportMissing =>
        /\ res[1].delay = 0
        /\ IF res[1].quit
           THEN res[1].requested_control_flow = Terminate /\ ~res[1].request_redraw
           ELSE res[1].requested_control_flow = Poll /\ res[1].request_redraw

\* C34 witness: a viewport window that is in the registry is redrawn, the
\* frame reports a delay of one millisecond and names no viewport but the
\* root; the window asks for a redraw and for Poll
C34_Witness ==
    /\ OwnViewportMissing
    /\ arg.w.vpid \in arg.vs
    /\ arg.in.out = {} /\ arg.in.d = 1000
    /\ ~res[1].quit
    /\ res[1].request_redraw
    /\ res[1].requested_control_flow = Poll

\* the thread that holds the lock a thread waits for (0: the thread does
\* not wait, or the lock is free)
WaitsFor(t) ==
    IF callers[t] = "lock_request_id" THEN WINDOW_REQUEST_ID.owner
    ELSE IF callers[t] \in {"lock_table", "get_lock"} THEN WINDOW_TABLE.owner
    ELSE IF t = EventLoop /\ arg.pc = "lock_viewportset" THEN arg.viewportset
    ELSE IF t = EventLoop /\ arg.pc = "add_lock" THEN WINDOW_TABLE.owner
    ELSE 0

\* thread t is inside a lock() call
Waiting(t) ==
    \/ callers[t] \in {"lock_request_id", "lock_table", "get_lock"}
    \/ t = EventLoop /\ arg.pc \in {"lock_viewportset", "add_lock"}

\* every value of the counter is a key of the table: new_id cannot return
TableFull == DOMAIN WINDOW_TABLE.map = Tokens

DispatchedIds(log) == {log[k].id : k \in 1..Len(log)}

\* C36: a pass ends, with at most one dispatch for each container it
\* started with; a container inserted during the pass is new, is examined
\* in the same pass (it is moved back in front of the container whose
\* dispatch made it, in the order of the requests) and is not dispatched
\* in that pass
C36_InsertedNotDispatched ==
    [][started' =>
          /\ Len(last'.disp) <= Len(windows)
          /\ \A k \in 1..Len(last'.disp) : \A m \in 1..Len(last'.disp) :
                k # m => last'.disp[k].id # last'.disp[m].id
          /\ \A k \in 1..Len(last'.disp) :
             \A j \in 1..Len(last'.disp[k].inserted) :
                /\ last'.disp[k].inserted[j] \notin Ids(windows)
                /\ last'.disp[k].inserted[j] \notin DispatchedIds(last'.disp)
                /\ last'.disp[k].inserted[j] \in Ids(windows')
                /\ Place(windows', last'.disp[k].inserted[j])
                      = Place(windows', last'.disp[k].id)
                        - Len(last'.disp[k].inserted) + j - 1]_vars

\* C36 witness: the pass for a user-event addressed to window 1 started
\* with the windows 1, 2; custom_event of window 1 returned a request, the
\* new window 3 was examined after it and not dispatched: 3, 1, 2
C36_Witness ==
    /\ started
    /\ last.event = UserEvent(1)
    /\ DispatchedIds(last.disp) = {1}
    /\ last.disp[1].inserted = <<3>>
    /\ [i \in 1..Len(windows) |-> windows[i].id] = <<3, 1, 2>>

\* C37: a step leaves every entry of the identity table in the table; a
\* populated value changes only through an add that carries the same token,
\* and never to absent; an entry is new only as the absent entry that new_id
\* makes for the token it is about to return.  The native id of a window
\* that was destroyed therefore stays in the table.
C37_TableOnlyGrows ==
    [][/\ \A id \in DOMAIN WINDOW_TABLE.map :
            /\ id \in DOMAIN WINDOW_TABLE'.map
            /\ WINDOW_TABLE.map[id] # NoWindowId
                  => WINDOW_TABLE'.map[id] # NoWindowId
            /\ WINDOW_TABLE'.map[id] # WINDOW_TABLE.map[id]
                  => /\ Len(arg') = Len(arg) + 1
                     /\ arg'[Len(arg')].id = id
                     /\ arg'[Len(arg')].w = WINDOW_TABLE'.map[id]
       /\ \A id \in DOMAIN WINDOW_TABLE'.map \ DOMAIN WINDOW_TABLE.map :
            /\ WINDOW_TABLE'.map[id] = NoWindowId
            /\ WINDOW_REQUEST_ID'.value = id
            /\ \E t \in Threads : callers[t] = "loop" /\ callers'[t] = "return"
      ]_vars

\* C37 witness: the window that add made for token 1 was destroyed by a
\* close request, no container is left, and get_window_id(1) still returns
\* its native id
C37_Witness ==
    /\ \E i \in 1..Len(arg) : arg[i].id = 1 /\ arg[i].known /\ arg[i].w = 1
    /\ windows = <<>>
    /\ last.event = WindowEvent(1, "CloseRequested")
    /\ get_window_id(WINDOW_TABLE.map, 1) = 1

\* the containers of ws whose native id is not id, in the order of ws
Others(ws, id) == SelectSeq(ws, LAMBDA w : w.id # id)

\* the containers of ws that a pass over before did not insert
Kept(ws, before) == SelectSeq(ws, LAMBDA w : w.id \in Ids(before))

\* C38: a pass for a window-event or a user-event addressed to the native
\* id W dispatches the container with that id, if there is one, and no
\* other; every other container is after the pass as it was before (holder
\* state, egui context, window data) and the other containers are in the
\* same order; a user-event dispatched to a viewport container returns no
\* request
C38_OnlyAddressedWindow ==
    [][(/\ crashed' = "none"
        /\ last'.event.type \in {"WindowEvent", "UserEvent"}
        /\ last'.event.wid # 0)
       =>
       /\ DispatchedIds(last'.disp) = {last'.event.wid} \cap Ids(windows)
       /\ Others(Kept(windows', windows), last'.event.wid)
             = Others(windows, last'.event.wid)
       /\ \A k \in 1..Len(last'.disp) :
             (last'.disp[k].kind = "Viewport" /\ last'.event.type = "UserEvent")
             => /\ last'.disp[k].new = 0
                /\ last'.disp[k].inserted = <<>>]_vars

\* C38 witness: a user-event addressed to a viewport window was dispatched
\* to it alone and returned no request; the root window that is also in
\* the collection was not dispatched
C38_Witness ==
    /\ crashed = "none"
    /\ last.event.type = "UserEvent"
    /\ Len(windows) = 2
    /\ Len(last.disp) = 1
    /\ last.disp[1].id = last.event.wid
    /\ last.disp[1].kind = "Viewport"
    /\ last.disp[1].new = 0
    /\ \E i \in 1..2 : windows[i].id # last.event.wid
                       /\ windows[i].kind = "PlainWindow"

\* the container of ws with the native id id
ContainerOf(ws, id) == ws[Place(ws, id)]

\* the step is a pass for a loop-exit or an about-to-wait notification
BroadcastPass ==
    /\ crashed' = "none"
    /\ last'.event.type \in {"LoopExiting", "AboutToWait"}

\* the pass dispatched every container of the collection once; a container
\* without an egui context got one; a non-root window with window data was
\* told to terminate exactly when no root window existed; after a loop-exit
\* every container left has its egui context torn down
BroadcastReachesAll ==
    /\ Len(last'.disp) = Len(windows)
    /\ DispatchedIds(last'.disp) = Ids(windows)
    /\ \A k \in 1..Len(last'.disp) :
          LET e == last'.disp[k]
              w == ContainerOf(windows, e.id)
          IN  /\ e.created_egui <=> w.egui = "None"
              /\ e.req = IF w.kind = "PlainWindow" /\ ~w.root
                            /\ ~RootWindowExists(windows)
                         THEN Terminate ELSE Wait
    /\ \A i \in 1..Len(windows') :
          /\ windows'[i].egui = "Some"
          /\ last'.event.type = "LoopExiting" => windows'[i].destroyed

\* the rendering context of every dispatched window was current during
\* its dispatch
BroadcastActivatesAll ==
    \A k \in 1..Len(last'.disp) :
        last'.disp[k].current_context = last'.disp[k].id

\* C39: a loop-exit or about-to-wait notification matches every live
\* container: it activates every window's context, creates the egui context
\* of every window that lacks one, forces the termination of the non-root
\* plain windows when no root window exists, and a loop-exit tears down the
\* egui context of every live window
C39_BroadcastToEveryWindow ==
    [][BroadcastPass => (BroadcastReachesAll /\ BroadcastActivatesAll)]_vars
====
